---------------------------- MODULE Spec2Model ----------------------------
(***************************************************************************)
(* A model of DataMorpher's cleaning engine (src/datamorpher/cleaner.py).  *)
(*                                                                         *)
(* clean_data is modelled as a state machine that walks through the        *)
(* phases of the function: row de-duplication, preliminary type detection  *)
(* (one step per column), context-aware cleaning (one step per column),    *)
(* semantic validation (one step per column) and imputation (one step per  *)
(* column).  When a run is finished the returned table can be handed to    *)
(* clean_data again (a second invocation).                                 *)
(*                                                                         *)
(* Text cells are TLA+ strings and the string functions of the source      *)
(* (regular expressions, str.lower, split, float(), strptime, ...) are     *)
(* computed character by character.  Numbers are fixed-point integers with *)
(* Scale units per 1 (two decimals); PosInf stands for float('inf').       *)
(***************************************************************************)
EXTENDS Integers, Sequences, FiniteSets, TLC

VARIABLES
    input,      \* the table handed to the current clean_data call
    df,         \* the local variable df of clean_data
    info,       \* the report: duplicates, imputed, invalid, transformations, warnings
    likely,     \* column_likely_types: column name -> likely type
    validated,  \* validated_columns: set of column names
    pc,         \* position in clean_data: "dedup","detect","clean","semantic","impute","done"
    col,        \* index of the column the current loop handles next
    run,        \* number of the current clean_data invocation
    today,      \* the calendar day pd.Timestamp.now() falls on
    hist,       \* history: what each step of the current run did (for stating properties)
    unit_call,  \* a helper function or the command line called on its own, with its arguments
    unit_result,\* what that call returned, once it has returned
    files,      \* the file system: path -> content of the file
    stdout      \* the lines typer.echo has printed

vars == <<input, df, info, likely, validated, pc, col, run, today, hist, unit_call, unit_result, files, stdout>>

-----------------------------------------------------------------------------
(* Bounds of the model *)

MaxRows == 3
MaxRuns == 2

Scale == 10 * 10
PosInf == 2 * 1000000000

-----------------------------------------------------------------------------
(* Characters and strings *)

Digits == "0123456789"
UpperLetters == "ABCDEFGHIJKLMNOPQRSTUVWXYZ"
LowerLetters == "abcdefghijklmnopqrstuvwxyz"
\* The characters of the model's texts in code-point order (str comparison).
CodePointOrder == " $,-./0123456789:ABCDEFGHIJKLMNOPQRSTUVWXYZ_abcdefghijklmnopqrstuvwxyz"

Ch(s, i) == SubSeq(s, i, i)
CharSet(s) == {Ch(s, i) : i \in 1..Len(s)}
DigitChars == CharSet(Digits)
UpperChars == CharSet(UpperLetters)
LowerChars == CharSet(LowerLetters)

IndexIn(s, c) == CHOOSE i \in 1..Len(s) : Ch(s, i) = c
DigitValTab == [c \in DigitChars |-> IndexIn(Digits, c) - 1]
LowerTab == [c \in UpperChars |-> Ch(LowerLetters, IndexIn(UpperLetters, c))]
RankTab == [c \in CharSet(CodePointOrder) |-> IndexIn(CodePointOrder, c)]

IsDigit(c) == c \in DigitChars
IsUpper(c) == c \in UpperChars
IsLower(c) == c \in LowerChars
IsAlpha(c) == IsUpper(c) \/ IsLower(c)
IsWordCh(c) == IsAlpha(c) \/ IsDigit(c) \/ c = "_"           \* regex \w
IsSpace(c) == c = " "                                         \* regex \s
IsCurrencySym(c) == c \in {"$", "€", "£"}                      \* [$€£]

\* str.lower()
RECURSIVE str_lower(_)
str_lower(s) ==
    IF s = "" THEN ""
    ELSE (IF IsUpper(Head(s)) THEN LowerTab[Head(s)] ELSE Head(s)) \o str_lower(Tail(s))

\* sub in s
RECURSIVE ContainsFrom(_, _, _)
ContainsFrom(s, sub, i) ==
    IF i + Len(sub) - 1 > Len(s) THEN FALSE
    ELSE IF SubSeq(s, i, i + Len(sub) - 1) = sub THEN TRUE
    ELSE ContainsFrom(s, sub, i + 1)
Contains(s, sub) == ContainsFrom(s, sub, 1)

EndsWith(s, suf) == Len(s) >= Len(suf) /\ SubSeq(s, Len(s) - Len(suf) + 1, Len(s)) = suf

\* str.replace(old, new) for a one-character old
RECURSIVE ReplaceCh(_, _, _)
ReplaceCh(s, old, new) ==
    IF s = "" THEN ""
    ELSE (IF Head(s) = old THEN new ELSE Head(s)) \o ReplaceCh(Tail(s), old, new)

\* str.strip()
RECURSIVE LStrip(_)
LStrip(s) == IF s # "" /\ IsSpace(Head(s)) THEN LStrip(Tail(s)) ELSE s
RECURSIVE RStrip(_)
RStrip(s) == IF s # "" /\ IsSpace(Ch(s, Len(s))) THEN RStrip(SubSeq(s, 1, Len(s) - 1)) ELSE s
Strip(s) == RStrip(LStrip(s))

\* the end (exclusive) of the longest run of characters satisfying a class from i
RECURSIVE RunEnd(_, _, _)
RunEnd(s, i, class) ==
    IF i <= Len(s) /\ Ch(s, i) \in class THEN RunEnd(s, i + 1, class) ELSE i

WordChars == DigitChars \cup UpperChars \cup LowerChars \cup {"_"}
AlphaChars == UpperChars \cup LowerChars
SpaceChars == {" "}

\* str.split(): the whitespace-separated words
RECURSIVE SplitFrom(_, _)
SplitFrom(s, i) ==
    IF i > Len(s) THEN <<>>
    ELSE IF IsSpace(Ch(s, i)) THEN SplitFrom(s, i + 1)
    ELSE LET j == CHOOSE k \in i + 1..Len(s) + 1 :
                     /\ (k = Len(s) + 1 \/ IsSpace(Ch(s, k)))
                     /\ \A m \in i..k - 1 : ~IsSpace(Ch(s, m))
         IN <<SubSeq(s, i, j - 1)>> \o SplitFrom(s, j)
Split(s) == SplitFrom(s, 1)

\* str comparison a < b by code points
RECURSIVE StrLess(_, _)
StrLess(a, b) ==
    IF b = "" THEN FALSE
    ELSE IF a = "" THEN TRUE
    ELSE IF Head(a) = Head(b) THEN StrLess(Tail(a), Tail(b))
    ELSE RankTab[Head(a)] < RankTab[Head(b)]

\* the value of a string of decimal digits
RECURSIVE DigitsVal(_)
DigitsVal(s) ==
    IF s = "" THEN 0 ELSE DigitsVal(SubSeq(s, 1, Len(s) - 1)) * 10 + DigitValTab[Ch(s, Len(s))]

AllDigits(s) == s # "" /\ \A i \in 1..Len(s) : IsDigit(Ch(s, i))

-----------------------------------------------------------------------------
(* Cells: a cell is missing (NaN/None), a str, an int, a float or a bool.  *)
(* v is the numeric value in fixed point (Scale units per 1).              *)

NaN == [k |-> "nan", s |-> "", v |-> 0]
StrC(t) == [k |-> "str", s |-> t, v |-> 0]
IntC(n) == [k |-> "int", s |-> "", v |-> n * Scale]
FltC(v) == [k |-> "float", s |-> "", v |-> v]
BoolC(b) == [k |-> "bool", s |-> "", v |-> IF b THEN Scale ELSE 0]
Inf == FltC(PosInf)

IsNa(c) == c.k = "nan"                       \* pd.isna
NotNa(c) == c.k # "nan"
IsStr(c) == c.k = "str"                      \* isinstance(val, str)
IsNum(c) == c.k \in {"int", "float"}

\* an optional number: the float | None results of the parsers
None == [ok |-> FALSE, v |-> 0]
Some(v) == [ok |-> TRUE, v |-> v]

\* the value of a function of one argument: [x \in {e} |-> f] names e as x in f
Let(binding) == binding[CHOOSE x \in DOMAIN binding : TRUE]

Abs(n) == IF n < 0 THEN -n ELSE n
TwoDigits(n) == IF n < 10 THEN "0" \o ToString(n) ELSE ToString(n)

\* repr of a float: 28.0, 4.8, 50.99, -5.0, inf
FloatStr(v) ==
    IF v = PosInf THEN "inf"
    ELSE LET a == Abs(v)
             f == a % Scale
         IN (IF v < 0 THEN "-" ELSE "") \o ToString(a \div Scale) \o "."
            \o (IF f % 10 = 0 THEN ToString(f \div 10) ELSE TwoDigits(f))

\* format(value, ".2f")
Fmt2(v) ==
    IF v = PosInf THEN "inf"
    ELSE (IF v < 0 THEN "-" ELSE "") \o ToString(Abs(v) \div Scale) \o "."
         \o TwoDigits(Abs(v) % Scale)

\* str(cell): astype(str) and the f-string rendering of a cell
CellStr(c) ==
    CASE c.k = "str" -> c.s
      [] c.k = "int" -> ToString(c.v \div Scale)
      [] c.k = "float" -> FloatStr(c.v)
      [] c.k = "bool" -> IF c.v # 0 THEN "True" ELSE "False"
      [] OTHER -> "nan"

-----------------------------------------------------------------------------
(* Numeric literals: Python's float() and the parser of pd.to_numeric      *)

RECURSIVE Pow10(_)
Pow10(n) == IF n = 0 THEN 1 ELSE 10 * Pow10(n - 1)

\* the value (fixed point) of the fraction digits d of a literal "x.d"
FracVal(d) ==
    IF d = "" THEN 0
    ELSE IF Len(d) = 1 THEN DigitsVal(d) * (Scale \div 10)
    ELSE DigitsVal(SubSeq(d, 1, 2))

\* A literal [sign] digits [. digits] [e [sign] digits] | [sign] . digits.
\* The result carries whether the literal is an integer literal.
ParseNumber(text) ==
    Let([s \in {Strip(text)} |->
    Let([b \in {IF s # "" /\ Head(s) \in {"-", "+"} THEN 2 ELSE 1} |->
    Let([iEnd \in {RunEnd(s, b, DigitChars)} |->
    Let([hasDot \in {iEnd <= Len(s) /\ Ch(s, iEnd) = "."} |->
    Let([fBeg \in {IF hasDot THEN iEnd + 1 ELSE iEnd} |->
    Let([fEnd \in {IF hasDot THEN RunEnd(s, fBeg, DigitChars) ELSE iEnd} |->
    Let([hasExp \in {fEnd <= Len(s) /\ Ch(s, fEnd) \in {"e", "E"}} |->
    Let([eSigned \in {hasExp /\ fEnd + 1 <= Len(s) /\ Ch(s, fEnd + 1) \in {"-", "+"}} |->
    Let([eBeg \in {IF eSigned THEN fEnd + 2 ELSE fEnd + 1} |->
    Let([eEnd \in {IF hasExp THEN RunEnd(s, eBeg, DigitChars) ELSE fEnd} |->
    Let([intDigits \in {SubSeq(s, b, iEnd - 1)} |->
    Let([fracDigits \in {SubSeq(s, fBeg, fEnd - 1)} |->
    Let([expVal \in {IF hasExp THEN DigitsVal(SubSeq(s, eBeg, eEnd - 1)) ELSE 0} |->
    Let([mant \in {DigitsVal(intDigits) * Scale + FracVal(fracDigits)} |->
    Let([mag \in {IF eSigned /\ Ch(s, fEnd + 1) = "-" THEN mant \div Pow10(expVal)
        ELSE mant * Pow10(expVal)} |->
        IF str_lower(s) \in {"inf", "+inf", "infinity", "+infinity"}
        THEN [ok |-> TRUE, v |-> PosInf, int |-> FALSE]
        ELSE IF /\ (intDigits # "" \/ fracDigits # "")
                /\ (hasExp => eEnd > eBeg)
                /\ eEnd = Len(s) + 1
        THEN [ok |-> TRUE, v |-> IF s # "" /\ Head(s) = "-" THEN -mag ELSE mag,
              int |-> ~hasDot /\ ~hasExp]
        ELSE [ok |-> FALSE, v |-> 0, int |-> FALSE]])])])])])])])])])])])])])])])

\* float(text): a number, or ValueError (None)
PyFloat(text) == Let([r \in {ParseNumber(text)} |-> IF r.ok THEN Some(r.v) ELSE None])

\* pd.to_numeric(cell, errors="coerce") for one cell of an object series
ToNumericCell(c) ==
    CASE c.k = "str" ->
            Let([r \in {ParseNumber(c.s)} |->
                IF ~r.ok THEN NaN
                ELSE IF r.int THEN [k |-> "int", s |-> "", v |-> r.v] ELSE FltC(r.v)])
      [] c.k = "bool" -> [k |-> "int", s |-> "", v |-> c.v]
      [] OTHER -> c

\* a numeric series is int64 when every cell is an int, float64 otherwise
AsFloat(c) == IF c.k = "int" THEN FltC(c.v) ELSE c
NumericSeries(cells) ==
    IF \A i \in DOMAIN cells : cells[i].k = "int"
    THEN [dtype |-> "int64", cells |-> cells]
    ELSE [dtype |-> "float64", cells |-> [i \in DOMAIN cells |-> AsFloat(cells[i])]]

\* pd.to_numeric(series, errors="coerce")
pd_to_numeric(cells) == NumericSeries([i \in DOMAIN cells |-> ToNumericCell(cells[i])])

-----------------------------------------------------------------------------
(* Number words: _NUMBER_WORDS, _NUMBER_MULTIPLIERS, _words_to_num and     *)
(* _words_to_num_extended                                                  *)

NUMBER_WORDS ==
    [zero |-> 0, one |-> 1, two |-> 2, three |-> 3, four |-> 4, five |-> 5, six |-> 6,
     seven |-> 7, eight |-> 8, nine |-> 9, ten |-> 10, eleven |-> 11, twelve |-> 12,
     thirteen |-> 13, fourteen |-> 14, fifteen |-> 15, sixteen |-> 16, seventeen |-> 17,
     eighteen |-> 18, nineteen |-> 19, twenty |-> 20, thirty |-> 30, forty |-> 40,
     fifty |-> 50, sixty |-> 60, seventy |-> 70, eighty |-> 80, ninety |-> 90]

NUMBER_MULTIPLIERS ==
    [hundred |-> 100, thousand |-> 1000, million |-> 1000000, billion |-> 1000000000]

IsNumberWord(w) == w \in DOMAIN NUMBER_WORDS
IsMultiplier(w) == w \in DOMAIN NUMBER_MULTIPLIERS

RECURSIVE SumWords(_)
SumWords(parts) ==
    IF parts = <<>> THEN 0 ELSE NUMBER_WORDS[Head(parts)] + SumWords(Tail(parts))

\* _words_to_num: the sum of the number words, None when a word is not one
words_to_num(text) ==
    Let([parts \in {Split(ReplaceCh(str_lower(text), "-", " "))} |->
        IF parts = <<>> THEN None
        ELSE IF \E i \in DOMAIN parts : ~IsNumberWord(parts[i]) THEN None
        ELSE Some(SumWords(parts) * Scale)])

\* the table common_expressions: text -> value (fixed point)
common_expressions ==
    ("four hundred fifty" :> 45000) @@ ("four point eight" :> 480) @@
    ("four point five" :> 450) @@ ("four point six" :> 460) @@
    ("four point three" :> 430) @@ ("three point nine" :> 390) @@
    ("thirty five" :> 3500) @@ ("twenty five" :> 2500) @@ ("forty five" :> 4500) @@
    ("fourteen ninety nine" :> 1499) @@ ("thirty nine ninety five" :> 3995) @@
    ("one thousand and fifty" :> 105000)

\* re.sub(r'\s+', ' ', s)
RECURSIVE CollapseSpaces(_)
CollapseSpaces(s) ==
    IF s = "" THEN ""
    ELSE IF IsSpace(Head(s)) THEN " " \o CollapseSpaces(LStrip(s))
    ELSE Head(s) \o CollapseSpaces(Tail(s))

\* w occurs at i as a whole word: \bw\b
WordAt(s, i, w) ==
    /\ i + Len(w) - 1 <= Len(s)
    /\ SubSeq(s, i, i + Len(w) - 1) = w
    /\ (i = 1 \/ ~IsWordCh(Ch(s, i - 1)))
    /\ (i + Len(w) > Len(s) \/ ~IsWordCh(Ch(s, i + Len(w))))

\* re.sub of the whole words ws (tried in order) by repl
RECURSIVE SubWords(_, _, _, _)
SubWords(s, i, ws, repl) ==
    IF i > Len(s) THEN ""
    ELSE IF \E k \in DOMAIN ws : WordAt(s, i, ws[k])
    THEN LET k == CHOOSE k \in DOMAIN ws :
                      WordAt(s, i, ws[k]) /\ \A m \in 1..k - 1 : ~WordAt(s, i, ws[m])
         IN repl \o SubWords(s, i + Len(ws[k]), ws, repl)
    ELSE Ch(s, i) \o SubWords(s, i + 1, ws, repl)

\* re.sub(r'\b\$\b', '', s): a dollar sign between two word characters
RECURSIVE SubInnerDollar(_, _)
SubInnerDollar(s, i) ==
    IF i > Len(s) THEN ""
    ELSE IF /\ Ch(s, i) = "$" /\ i > 1 /\ i < Len(s)
            /\ IsWordCh(Ch(s, i - 1)) /\ IsWordCh(Ch(s, i + 1))
    THEN SubInnerDollar(s, i + 1)
    ELSE Ch(s, i) \o SubInnerDollar(s, i + 1)

CurrencyWords == <<"dollars", "dollar", "euros", "euro", "pounds", "pound">>

\* lines 324-337: the normalisation of the text before parsing
NormalizeWordsText(normalized) ==
    LET t1 == CollapseSpaces(ReplaceCh(normalized, ",", " "))
        t2 == SubWords(t1, 1, <<"and">>, " ")
        t3 == SubInnerDollar(SubWords(t2, 1, CurrencyWords, ""), 1)
    IN Strip(t3)

\* re.match(r'(\w+)\s+point\s+(\w+)', text): the two groups, or no match
PointMatch(text) ==
    Let([e1 \in {RunEnd(text, 1, WordChars)} |->
    Let([e2 \in {RunEnd(text, e1, SpaceChars)} |->
    Let([e4 \in {RunEnd(text, e2 + 5, SpaceChars)} |->
    Let([e5 \in {RunEnd(text, e4, WordChars)} |->
        IF /\ e1 > 1 /\ e2 > e1 /\ e2 + 4 <= Len(text)
           /\ SubSeq(text, e2, e2 + 4) = "point" /\ e4 > e2 + 5 /\ e5 > e4
        THEN [ok |-> TRUE, left |-> SubSeq(text, 1, e1 - 1),
              right |-> SubSeq(text, e4, e5 - 1)]
        ELSE [ok |-> FALSE, left |-> "", right |-> ""]])])])])

\* float(f"{left_val}.{right_val}")
PointValue(l, r) == l * Scale + (IF r < 10 THEN r * (Scale \div 10) ELSE r)

\* the accumulator loop without the flush at thousand and above
RECURSIVE MultiplierLoopNoFlush(_, _, _)
MultiplierLoopNoFlush(parts, i, st) ==
    IF i > Len(parts) THEN st
    ELSE LET part == parts[i]
         IN IF ~IsNumberWord(part) /\ ~IsMultiplier(part)
            THEN MultiplierLoopNoFlush(parts, i + 1, st)
            ELSE IF IsNumberWord(part)
            THEN MultiplierLoopNoFlush(parts, i + 1,
                     [st EXCEPT !.current = @ + NUMBER_WORDS[part]])
            ELSE LET multiplier == NUMBER_MULTIPLIERS[part]
                     cur == IF st.current > 0 THEN st.current * multiplier ELSE multiplier
                 IN MultiplierLoopNoFlush(parts, i + 1, [st EXCEPT !.current = cur])

\* lines 369-404: the accumulator loop; st = [current, total]
RECURSIVE MultiplierLoop(_, _, _)
MultiplierLoop(parts, i, st) ==
    IF i > Len(parts) THEN st
    ELSE LET part == parts[i]
         IN IF ~IsNumberWord(part) /\ ~IsMultiplier(part)
            THEN MultiplierLoop(parts, i + 1, st)
            ELSE IF IsNumberWord(part)
            THEN MultiplierLoop(parts, i + 1,
                     [st EXCEPT !.current = @ + NUMBER_WORDS[part]])
            ELSE LET multiplier == NUMBER_MULTIPLIERS[part]
                     cur == IF st.current > 0 THEN st.current * multiplier ELSE multiplier
                 IN IF multiplier >= 1000
                    THEN MultiplierLoop(parts, i + 1,
                             [current |-> 0, total |-> st.total + cur])
                    ELSE MultiplierLoop(parts, i + 1, [st EXCEPT !.current = cur])

words_to_num_extended(text0) ==
    Let([normalized \in {Strip(ReplaceCh(str_lower(text0), "-", " "))} |->
    IF normalized \in DOMAIN common_expressions THEN Some(common_expressions[normalized])
    ELSE
    Let([text \in {NormalizeWordsText(normalized)} |->
    Let([pm \in {PointMatch(text)} |->
    Let([parts \in {Split(text)} |->
        LET first_part == NUMBER_WORDS[parts[1]] * 10 + NUMBER_WORDS[parts[2]]
            second_part == NUMBER_WORDS[parts[3]] * 10 + NUMBER_WORDS[parts[4]]
        IN IF IsNumberWord(text) THEN Some(NUMBER_WORDS[text] * Scale)
           ELSE IF pm.ok /\ IsNumberWord(pm.left) /\ IsNumberWord(pm.right)
           THEN Some(PointValue(NUMBER_WORDS[pm.left], NUMBER_WORDS[pm.right]))
           ELSE IF /\ Len(parts) = 4
                   /\ \A i \in 1..4 : IsNumberWord(parts[i])
                   /\ second_part < 100
           THEN Some(first_part * Scale + second_part)
           ELSE IF \E i \in DOMAIN parts : IsMultiplier(parts[i])
           THEN Let([st \in {MultiplierLoop(parts, 1, [current |-> 0, total |-> 0])} |->
                    IF st.total + st.current = 0 /\ st.current = 0 THEN None
                    ELSE Some((st.total + st.current) * Scale)])
           ELSE words_to_num(text)])])])])

\* series.apply(_words_to_num_extended) for one cell
WordsCell(c) == IF IsStr(c) THEN words_to_num_extended(c.s) ELSE None

-----------------------------------------------------------------------------
(* Series helpers.  A series is a sequence of cells; a column of a table   *)
(* is [name, dtype, cells] with dtype the pandas storage dtype             *)
(* ("object", "float64", "int64" or "bool").                               *)

Min(a, b) == IF a < b THEN a ELSE b
Max(a, b) == IF a > b THEN a ELSE b

dropna(cells) == SelectSeq(cells, NotNa)
head(cells, n) == SubSeq(cells, 1, Min(n, Len(cells)))
astype_str(cells) == [i \in DOMAIN cells |-> CellStr(cells[i])]
CountNotNa(cells) == Cardinality({i \in DOMAIN cells : NotNa(cells[i])})
HasNa(cells) == \E i \in DOMAIN cells : IsNa(cells[i])

\* Series.mean() > num/den for a boolean series given by the predicate P on texts
CountIf(texts, P(_)) == Cardinality({i \in DOMAIN texts : P(texts[i])})
MeanAbove(texts, P(_), num, den) ==
    Len(texts) > 0 /\ CountIf(texts, P) * den > num * Len(texts)

\* pandas.api.types.infer_dtype(series, skipna=True)
infer_dtype(series) ==
    LET vals == dropna(series.cells)
        kinds == {vals[i].k : i \in DOMAIN vals}
    IN CASE series.dtype = "float64" -> "floating"
         [] series.dtype = "int64" -> "integer"
         [] series.dtype = "bool" -> "boolean"
         [] OTHER ->
              IF vals = <<>> THEN "empty"
              ELSE IF kinds = {"int"} THEN "integer"
              ELSE IF kinds = {"float"} THEN "floating"
              ELSE IF kinds = {"int", "float"} THEN "mixed-integer-float"
              ELSE IF kinds = {"bool"} THEN "boolean"
              ELSE IF kinds = {"str"} THEN "string"
              ELSE IF "int" \in kinds THEN "mixed-integer"
              ELSE "mixed"

-----------------------------------------------------------------------------
(* _is_product_name and _preliminary_type_detection                        *)

LeftBoundary(s, i) == i = 1 \/ ~IsWordCh(Ch(s, i - 1))
RightBoundary(s, e) == e > Len(s) \/ ~IsWordCh(Ch(s, e))

\* r'\b[A-Z][a-z]+\s+\d+\b'
ProductPattern1(s) ==
    \E i \in 1..Len(s) :
        LET e1 == RunEnd(s, i + 1, LowerChars)
            e2 == RunEnd(s, e1, SpaceChars)
            e3 == RunEnd(s, e2, DigitChars)
        IN /\ LeftBoundary(s, i) /\ IsUpper(Ch(s, i))
           /\ e1 > i + 1 /\ e2 > e1 /\ e3 > e2 /\ RightBoundary(s, e3)

\* r'\b[A-Z][a-z]+\s+[A-Z][a-z]+\b'
ProductPattern2(s) ==
    \E i \in 1..Len(s) :
        LET e1 == RunEnd(s, i + 1, LowerChars)
            e2 == RunEnd(s, e1, SpaceChars)
            e3 == RunEnd(s, e2 + 1, LowerChars)
        IN /\ LeftBoundary(s, i) /\ IsUpper(Ch(s, i))
           /\ e1 > i + 1 /\ e2 > e1 /\ e2 <= Len(s) /\ IsUpper(Ch(s, e2))
           /\ e3 > e2 + 1 /\ RightBoundary(s, e3)

\* r'\b[A-Z]+\d+\b'
ProductPattern3(s) ==
    \E i \in 1..Len(s) :
        LET e1 == RunEnd(s, i, UpperChars)
            e2 == RunEnd(s, e1, DigitChars)
        IN LeftBoundary(s, i) /\ e1 > i /\ e2 > e1 /\ RightBoundary(s, e2)

\* r'\b\w+\s\w+\s\d+\w*\b'
ProductPattern4(s) ==
    \E i \in 1..Len(s) :
        LET e1 == RunEnd(s, i, WordChars)
            e2 == RunEnd(s, e1 + 1, WordChars)
        IN /\ LeftBoundary(s, i) /\ e1 > i
           /\ e1 <= Len(s) /\ IsSpace(Ch(s, e1))
           /\ e2 > e1 + 1 /\ e2 <= Len(s) /\ IsSpace(Ch(s, e2))
           /\ e2 + 1 <= Len(s) /\ IsDigit(Ch(s, e2 + 1))

\* r'\d+\s*[a-zA-Z]+'
UnitTokenPattern(s) ==
    \E i \in 1..Len(s) :
        LET e == RunEnd(s, i + 1, SpaceChars)
        IN IsDigit(Ch(s, i)) /\ e <= Len(s) /\ IsAlpha(Ch(s, e))

is_product_name(series) ==
    Let([sample \in {head(astype_str(dropna(series.cells)), 20)} |->
        \/ MeanAbove(sample, ProductPattern1, 3, 10)
        \/ MeanAbove(sample, ProductPattern2, 3, 10)
        \/ MeanAbove(sample, ProductPattern3, 3, 10)
        \/ MeanAbove(sample, ProductPattern4, 3, 10)
        \/ MeanAbove(sample, UnitTokenPattern, 3, 10)])

ContainsAny(s, terms) == \E t \in terms : Contains(s, t)

\* r'\d{4}-\d{2}-\d{2}' matched at the start
IsoDateShape(s) ==
    /\ Len(s) >= 10
    /\ AllDigits(SubSeq(s, 1, 4)) /\ Ch(s, 5) = "-"
    /\ AllDigits(SubSeq(s, 6, 7)) /\ Ch(s, 8) = "-"
    /\ AllDigits(SubSeq(s, 9, 10))

BoolTokenShape(s) == str_lower(s) \in {"true", "false", "yes", "no", "1", "0"}

\* digits [. digits] from i: the end of the match, or 0
DecimalEnd(s, i) ==
    LET e1 == RunEnd(s, i, DigitChars)
        e2 == RunEnd(s, e1 + 1, DigitChars)
    IN IF e1 = i THEN 0
       ELSE IF e1 <= Len(s) /\ Ch(s, e1) = "." /\ e2 > e1 + 1 THEN e2
       ELSE e1

\* r'^-?\d+(\.\d+)?$'
NumericShape(s) ==
    LET b == IF s # "" /\ Head(s) = "-" THEN 2 ELSE 1
    IN DecimalEnd(s, b) = Len(s) + 1

\* r'^[\$\€\£]?\d+(\.\d+)?[\$\€\£]?$'
CurrencyShape(s) ==
    LET b == IF s # "" /\ IsCurrencySym(Head(s)) THEN 2 ELSE 1
        e == DecimalEnd(s, b)
    IN e # 0 /\ (e = Len(s) + 1 \/ (e = Len(s) /\ IsCurrencySym(Ch(s, e))))

preliminary_type_detection(series, column_name) ==
    Let([col_lower \in {str_lower(column_name)} |->
    IF ContainsAny(col_lower, {"id", "identifier", "code"}) THEN "identifier"
    ELSE IF ContainsAny(col_lower, {"name", "title", "product"})
    THEN (IF is_product_name(series) THEN "product_name" ELSE "string")
    ELSE IF ContainsAny(col_lower, {"date", "time", "created", "updated"}) THEN "date"
    ELSE IF ContainsAny(col_lower, {"price", "cost", "amount", "fee"}) THEN "currency"
    ELSE IF ContainsAny(col_lower, {"location", "address", "city", "store"}) THEN "location"
    ELSE IF ContainsAny(col_lower, {"is_", "has_", "active", "enabled", "flag"})
    THEN "boolean"
    ELSE
    Let([sample \in {astype_str(head(dropna(series.cells), 20))} |->
        IF MeanAbove(sample, IsoDateShape, 3, 10) THEN "date"
        ELSE IF MeanAbove(sample, BoolTokenShape, 3, 10) THEN "boolean"
        ELSE IF MeanAbove(sample, NumericShape, 7, 10) THEN "numeric"
        ELSE IF MeanAbove(sample, CurrencyShape, 3, 10) THEN "currency"
        ELSE IF is_product_name(series) THEN "product_name"
        ELSE "string"])])

-----------------------------------------------------------------------------
(* _normalize_booleans_extended                                            *)

true_values == {"true", "yes", "1", "t", "y", "active", "enabled", "on", "2"}
false_values == {"false", "no", "0", "f", "n", "inactive", "disabled", "off"}
ambiguous_values == {"maybe", "perhaps", "pending", "unknown", "null", "na", "n/a"}

\* a faulty variant: the tokens are compared without lower-casing the cell
NormalizeBoolCellExact(c) ==
    IF CellStr(c) \in false_values THEN BoolC(FALSE)
    ELSE IF CellStr(c) \in true_values THEN BoolC(TRUE)
    ELSE NaN

\* lines 428-433 for one cell: series.astype(str).str.lower() and the two isin masks
NormalizeBoolCell(c) ==
    LET lowercase == str_lower(CellStr(c))
    IN IF lowercase \in false_values THEN BoolC(FALSE)
       ELSE IF lowercase \in true_values THEN BoolC(TRUE)
       ELSE NaN

\* the result is an object series of True / False / NaN
normalize_booleans_extended(cells) == [i \in DOMAIN cells |-> NormalizeBoolCell(cells[i])]

-----------------------------------------------------------------------------
(* _normalize_units                                                        *)

UNIT_MULTIPLIERS ==
    [k |-> 1000, m |-> 1000000, b |-> 1000000000,
     K |-> 1000, M |-> 1000000, B |-> 1000000000]

\* r'\d+\.?\d*' from i: the end of the match, or 0
NumLitEnd(s, i) ==
    LET e1 == RunEnd(s, i, DigitChars)
    IN IF e1 = i THEN 0
       ELSE IF e1 <= Len(s) /\ Ch(s, e1) = "." THEN RunEnd(s, e1 + 1, DigitChars)
       ELSE e1

\* r'^(\d+\.?\d*)([kKmMbB])$'
SuffixMatch(val) ==
    LET e == NumLitEnd(val, 1)
    IN e # 0 /\ e = Len(val) /\ Ch(val, e) \in DOMAIN UNIT_MULTIPLIERS

\* r'^[$€£](\d+\.?\d*)$|^(\d+\.?\d*)[$€£]$': the number group, or ""
CurrencyMatch(val) ==
    IF val # "" /\ IsCurrencySym(Head(val)) /\ NumLitEnd(val, 2) = Len(val) + 1
    THEN Tail(val)
    ELSE IF NumLitEnd(val, 1) # 0 /\ NumLitEnd(val, 1) = Len(val)
            /\ IsCurrencySym(Ch(val, Len(val)))
    THEN SubSeq(val, 1, Len(val) - 1)
    ELSE ""

\* re.sub(r'(\d),(\d)', r'\1\2', val)
RECURSIVE SubThousands(_, _)
SubThousands(s, i) ==
    IF i > Len(s) THEN ""
    ELSE IF /\ i + 2 <= Len(s) /\ IsDigit(Ch(s, i)) /\ Ch(s, i + 1) = ","
            /\ IsDigit(Ch(s, i + 2))
    THEN Ch(s, i) \o Ch(s, i + 2) \o SubThousands(s, i + 3)
    ELSE Ch(s, i) \o SubThousands(s, i + 1)

\* r'^(\d+\.?\d*)\s+units?$': the number group, or ""
UnitWordMatch(val) ==
    LET e == NumLitEnd(val, 1)
        w == IF e = 0 THEN 0 ELSE RunEnd(val, e, SpaceChars)
    IN IF e # 0 /\ w > e /\ SubSeq(val, w, Len(val)) \in {"unit", "units"}
       THEN SubSeq(val, 1, e - 1)
       ELSE ""

\* one iteration of the loop of _normalize_units: the new cell and its log entries
NormalizeUnitsCell(c) ==
    LET val == c.s
        Converted(converted, before, kind) ==
            [cell |-> FltC(converted),
             log |-> before \o <<val \o " -> " \o FloatStr(converted) \o kind>>]
    IN IF ~IsStr(c) THEN [cell |-> c, log |-> <<>>]
       ELSE IF SuffixMatch(val)
       THEN Converted(PyFloat(SubSeq(val, 1, Len(val) - 1)).v
                          * UNIT_MULTIPLIERS[Ch(val, Len(val))],
                      <<>>, " (unit conversion " \o Ch(val, Len(val)) \o ")")
       ELSE
       Let([number \in {CurrencyMatch(val)} |->
       IF number # "" THEN Converted(PyFloat(number).v, <<>>, " (currency conversion)")
       ELSE
       Let([sep \in {PyFloat(SubThousands(val, 1))} |->
       Let([hasSep \in {Contains(val, ",") /\ ~EndsWith(val, ",") /\ sep.ok} |->
       Let([sepLog \in {IF hasSep
           THEN <<val \o " -> " \o FloatStr(sep.v) \o " (separator cleaning)">>
           ELSE <<>>} |->
       Let([uw \in {UnitWordMatch(val)} |->
           IF uw # "" THEN Converted(PyFloat(uw).v, sepLog, " (number extraction)")
           ELSE [cell |-> IF hasSep THEN FltC(sep.v) ELSE c, log |-> sepLog]])])])])])

RECURSIVE ConcatLogs(_)
ConcatLogs(rs) == IF rs = <<>> THEN <<>> ELSE Head(rs).log \o ConcatLogs(Tail(rs))

\* _normalize_units(series, column, transformations): ok is FALSE for the result None
normalize_units(series) ==
    IF series.dtype # "object" THEN [ok |-> FALSE, cells |-> series.cells, log |-> <<>>]
    ELSE
    Let([rs \in {[i \in DOMAIN series.cells |-> NormalizeUnitsCell(series.cells[i])]} |->
    Let([result \in {[i \in DOMAIN rs |-> rs[i].cell]} |->
        [ok |-> result # series.cells, cells |-> result, log |-> ConcatLogs(rs)]])])

-----------------------------------------------------------------------------
(* Dates: pd.Timestamp values, strptime with the formats of                *)
(* _DATE_FORMATS_EXTENDED, _extract_textual_date, _validate_dates_extended *)

NaT == [ok |-> FALSE, y |-> 0, m |-> 0, d |-> 0]
Date(y, m, d) == [ok |-> TRUE, y |-> y, m |-> m, d |-> d]

IsLeap(y) == (y % 4 = 0 /\ y % 100 # 0) \/ y % 400 = 0
DaysInMonth(y, m) ==
    IF m = 2 THEN (IF IsLeap(y) THEN 29 ELSE 28)
    ELSE IF m \in {4, 6, 9, 11} THEN 30 ELSE 31

\* a composed date exists in the calendar
ValidDate(y, m, d) == m \in 1..12 /\ d >= 1 /\ d <= DaysInMonth(y, m)

Pad(n, width) ==
    LET t == ToString(n)
    IN IF Len(t) >= width THEN t
       ELSE SubSeq("0000", 1, width - Len(t)) \o t

\* Timestamp.strftime("%Y-%m-%d")
strftime(ts) == Pad(ts.y, 4) \o "-" \o Pad(ts.m, 2) \o "-" \o Pad(ts.d, 2)

\* ts + pd.Timedelta(days=1), ts - pd.Timedelta(days=1)
NextDay(ts) ==
    IF ts.d < DaysInMonth(ts.y, ts.m) THEN Date(ts.y, ts.m, ts.d + 1)
    ELSE IF ts.m < 12 THEN Date(ts.y, ts.m + 1, 1)
    ELSE Date(ts.y + 1, 1, 1)
PrevDay(ts) ==
    IF ts.d > 1 THEN Date(ts.y, ts.m, ts.d - 1)
    ELSE IF ts.m > 1 THEN Date(ts.y, ts.m - 1, DaysInMonth(ts.y, ts.m - 1))
    ELSE Date(ts.y - 1, 12, 31)

MonthNames ==
    <<"january", "february", "march", "april", "may", "june", "july", "august",
      "september", "october", "november", "december">>
MonthAbbrs ==
    <<"jan", "feb", "mar", "apr", "may", "jun", "jul", "aug", "sep", "oct", "nov", "dec">>
MonthIndex(names, w) ==
    IF \E i \in 1..12 : names[i] = w THEN CHOOSE i \in 1..12 : names[i] = w ELSE 0

\* A format is a sequence of directives ("Y","m","d","B","b","H","M","S") and
\* literal characters; " " stands for one or more blanks.
FmtIsoDash == <<"Y", "-", "m", "-", "d">>
FmtIsoSlash == <<"Y", "/", "m", "/", "d">>
FmtDMYSlash == <<"d", "/", "m", "/", "Y">>
FmtMDYSlash == <<"m", "/", "d", "/", "Y">>
FmtDMYDash == <<"d", "-", "m", "-", "Y">>
FmtMDYDash == <<"m", "-", "d", "-", "Y">>
FmtBdY == <<"B", " ", "d", " ", "Y">>
FmtdBY == <<"d", " ", "B", " ", "Y">>
FmtbdY == <<"b", " ", "d", " ", "Y">>
FmtdbY == <<"d", " ", "b", " ", "Y">>
FmtIsoTime == <<"Y", "-", "m", "-", "d", " ", "H", ":", "M", ":", "S">>

DATE_FORMATS_EXTENDED ==
    <<FmtIsoDash, FmtIsoSlash, FmtDMYSlash, FmtMDYSlash, FmtDMYDash, FmtMDYDash,
      FmtBdY, FmtdBY, FmtbdY, FmtdbY, FmtIsoTime>>

Directives == {"Y", "m", "d", "B", "b", "H", "M", "S"}

\* match the format from element f on the text from position i, collecting the fields
RECURSIVE Strptime(_, _, _, _, _)
Strptime(fmt, f, s, i, acc) ==
    IF f > Len(fmt) THEN (IF i = Len(s) + 1 THEN acc ELSE [acc EXCEPT !.ok = FALSE])
    ELSE LET x == fmt[f]
             dEnd == RunEnd(s, i, DigitChars)
             aEnd == RunEnd(s, i, AlphaChars)
             num == DigitsVal(SubSeq(s, i, dEnd - 1))
             word == str_lower(SubSeq(s, i, aEnd - 1))
             fail == [acc EXCEPT !.ok = FALSE]
         IN CASE x = "Y" ->
                   IF dEnd - i = 4 THEN Strptime(fmt, f + 1, s, dEnd, [acc EXCEPT !.y = num])
                   ELSE fail
              [] x = "m" ->
                   IF dEnd - i \in {1, 2} /\ num \in 1..12
                   THEN Strptime(fmt, f + 1, s, dEnd, [acc EXCEPT !.m = num]) ELSE fail
              [] x = "d" ->
                   IF dEnd - i \in {1, 2} /\ num \in 1..31
                   THEN Strptime(fmt, f + 1, s, dEnd, [acc EXCEPT !.d = num]) ELSE fail
              [] x = "H" ->
                   IF dEnd - i \in {1, 2} /\ num \in 0..23
                   THEN Strptime(fmt, f + 1, s, dEnd, acc) ELSE fail
              [] x \in {"M", "S"} ->
                   IF dEnd - i \in {1, 2} /\ num \in 0..59
                   THEN Strptime(fmt, f + 1, s, dEnd, acc) ELSE fail
              [] x = "B" ->
                   IF MonthIndex(MonthNames, word) # 0
                   THEN Strptime(fmt, f + 1, s, aEnd,
                                 [acc EXCEPT !.m = MonthIndex(MonthNames, word)])
                   ELSE fail
              [] x = "b" ->
                   IF MonthIndex(MonthAbbrs, word) # 0
                   THEN Strptime(fmt, f + 1, s, aEnd,
                                 [acc EXCEPT !.m = MonthIndex(MonthAbbrs, word)])
                   ELSE fail
              [] x = " " ->
                   IF RunEnd(s, i, SpaceChars) > i
                   THEN Strptime(fmt, f + 1, s, RunEnd(s, i, SpaceChars), acc) ELSE fail
              [] OTHER ->
                   IF i <= Len(s) /\ Ch(s, i) = x THEN Strptime(fmt, f + 1, s, i + 1, acc)
                   ELSE fail

\* pd.to_datetime(text, format=fmt): a Timestamp, or NaT when the text does not
\* match the format or names a day that does not exist
to_datetime_fmt(text, fmt) ==
    Let([r \in {Strptime(fmt, 1, text, 1, Date(0, 0, 0))} |->
        IF r.ok /\ ValidDate(r.y, r.m, r.d) THEN r ELSE NaT])

\* pd.to_datetime(series, errors="coerce", format=fmt) for one cell
ToDatetimeCell(c, fmt) == IF IsStr(c) THEN to_datetime_fmt(c.s, fmt) ELSE NaT

\* a faulty variant: every format is applied and a later one overwrites an earlier one
RECURSIVE LastFormat(_, _, _)
LastFormat(c, formats, f) ==
    IF f > Len(formats) THEN NaT
    ELSE Let([later \in {LastFormat(c, formats, f + 1)} |->
             IF later.ok THEN later ELSE ToDatetimeCell(c, formats[f])])

\* the loop over formats with parsed.fillna(parsed_try): the first format wins
RECURSIVE FirstFormat(_, _, _)
FirstFormat(c, formats, f) ==
    IF f > Len(formats) THEN NaT
    ELSE Let([parsed_try \in {ToDatetimeCell(c, formats[f])} |->
             IF parsed_try.ok THEN parsed_try ELSE FirstFormat(c, formats, f + 1)])

\* the two fallbacks of _extract_textual_date: the full month name, then the abbreviation
TryFormats(date_str, fmt1, fmt2) ==
    Let([full \in {to_datetime_fmt(date_str, fmt1)} |->
        IF full.ok THEN full ELSE to_datetime_fmt(date_str, fmt2)])

\* _extract_textual_date(text): a Timestamp whose strftime is the returned text, or NaT (None)
extract_textual_date(text) ==
    \* r'(\d+)(st|nd|rd|th)\s+([A-Za-z]+)\s+(\d{4})'
    Let([o1 \in {RunEnd(text, 1, DigitChars)} |->
    Let([o3 \in {RunEnd(text, o1 + 2, SpaceChars)} |->
    Let([o4 \in {RunEnd(text, o3, AlphaChars)} |->
    Let([o5 \in {RunEnd(text, o4, SpaceChars)} |->
    \* r'([A-Za-z]+)\s+(\d+)\s+(\d{4})'
    Let([m1 \in {RunEnd(text, 1, AlphaChars)} |->
    Let([m2 \in {RunEnd(text, m1, SpaceChars)} |->
    Let([m3 \in {RunEnd(text, m2, DigitChars)} |->
    Let([m4 \in {RunEnd(text, m3, SpaceChars)} |->
        IF /\ o1 > 1 /\ o1 + 1 <= Len(text)
           /\ SubSeq(text, o1, o1 + 1) \in {"st", "nd", "rd", "th"}
           /\ o3 > o1 + 2 /\ o4 > o3 /\ o5 > o4
           /\ o5 + 3 <= Len(text) /\ AllDigits(SubSeq(text, o5, o5 + 3))
        THEN TryFormats(SubSeq(text, 1, o1 - 1) \o " " \o SubSeq(text, o3, o4 - 1)
                        \o " " \o SubSeq(text, o5, o5 + 3), FmtdBY, FmtdbY)
        ELSE IF /\ m1 > 1 /\ m2 > m1 /\ m3 > m2 /\ m4 > m3
                /\ m4 + 3 <= Len(text) /\ AllDigits(SubSeq(text, m4, m4 + 3))
        THEN TryFormats(SubSeq(text, 1, m1 - 1) \o " " \o SubSeq(text, m2, m3 - 1)
                        \o " " \o SubSeq(text, m4, m4 + 3), FmtBdY, FmtbdY)
        ELSE NaT])])])])])])])])

\* _DATE_RELATIVE_EXPRESSIONS resolved against now
IsRelative(text) == str_lower(text) \in {"yesterday", "today", "tomorrow"}
RelativeDate(text, now) ==
    CASE str_lower(text) = "yesterday" -> PrevDay(now)
      [] str_lower(text) = "today" -> now
      [] OTHER -> NextDay(now)

\* line 561: val == "invalid_date" or "invalid" in val.lower()
IsForcedInvalid(c) ==
    IsStr(c) /\ (c.s = "invalid_date" \/ Contains(str_lower(c.s), "invalid"))

\* lines 515-540: the first loop, for one cell: the Timestamp and the log entry
DateFirstPass(c, now) ==
    IF ~IsStr(c) \/ c.s = "invalid_date" THEN [ts |-> NaT, log |-> <<>>]
    ELSE IF IsRelative(c.s)
    THEN Let([ts \in {RelativeDate(c.s, now)} |->
             [ts |-> ts, log |-> <<c.s \o " -> " \o strftime(ts)>>]])
    ELSE Let([extracted_date \in {extract_textual_date(c.s)} |->
             IF extracted_date.ok
             THEN [ts |-> extracted_date,
                   log |-> <<c.s \o " -> " \o strftime(extracted_date)>>]
             ELSE [ts |-> NaT, log |-> <<>>]])

\* lines 543-556: the formats fill what the first pass left, then the validity check
DateSecondPass(c, first, formats) ==
    Let([p \in {IF first.ok THEN first ELSE FirstFormat(c, formats, 1)} |->
        IF p.ok /\ ValidDate(p.y, p.m, p.d) THEN p ELSE NaT])

\* a faulty variant: only the exact text "invalid_date" is forced
DateForceInvalidExact(c, p) ==
    IF IsStr(c) /\ c.s = "invalid_date" THEN [ts |-> NaT, log |-> <<c.s \o " -> INVALID">>]
    ELSE [ts |-> p, log |-> <<>>]

\* lines 559-566: the forced-invalid rule, for one cell
DateForceInvalid(c, p) ==
    IF IsForcedInvalid(c) THEN [ts |-> NaT, log |-> <<c.s \o " -> INVALID">>]
    ELSE [ts |-> p, log |-> <<>>]

\* lines 576-592: the report of the cells the formats converted
DateFinalLog(c, p) ==
    IF ~p.ok \/ IsNa(c) THEN <<>>
    ELSE IF IsStr(c) /\ (IsRelative(c.s) \/ extract_textual_date(c.s).ok \/ IsForcedInvalid(c))
    THEN <<>>
    ELSE IF CellStr(c) # strftime(p) THEN <<CellStr(c) \o " -> " \o strftime(p)>>
    ELSE <<>>

RECURSIVE ConcatSeqs(_)
ConcatSeqs(ss) == IF ss = <<>> THEN <<>> ELSE Head(ss) \o ConcatSeqs(Tail(ss))

\* _validate_dates_extended(series, column=..., transformations=...):
\* ok is FALSE for the result (None, 0); log is what was appended to transformations[column]
\* and parsed the local series of Timestamps at the return
validate_dates_extended(series, now) ==
    LET cells == series.cells
    IN
    Let([first \in {[i \in DOMAIN cells |-> DateFirstPass(cells[i], now)]} |->
    Let([second \in {[i \in DOMAIN cells |->
            DateSecondPass(cells[i], first[i].ts, DATE_FORMATS_EXTENDED)]} |->
    Let([forced \in {[i \in DOMAIN cells |-> DateForceInvalid(cells[i], second[i])]} |->
    Let([parsed \in {[i \in DOMAIN cells |-> forced[i].ts]} |->
    Let([nParsed \in {Cardinality({i \in DOMAIN cells : parsed[i].ok})} |->
    Let([earlyLog \in {ConcatLogs(first) \o ConcatLogs(forced)} |->
        IF ~(nParsed # 0 /\ 2 * nParsed >= Max(CountNotNa(cells), 1))
        THEN [ok |-> FALSE, cells |-> cells, invalid |-> 0, log |-> earlyLog,
              parsed |-> parsed]
        ELSE [ok |-> TRUE, parsed |-> parsed,
              cells |-> [i \in DOMAIN cells |->
                            IF parsed[i].ok THEN StrC(strftime(parsed[i])) ELSE NaN],
              invalid |-> Cardinality({i \in DOMAIN cells :
                                          NotNa(cells[i]) /\ ~parsed[i].ok}),
              log |-> earlyLog \o ConcatSeqs([i \in DOMAIN cells |->
                                                 DateFinalLog(cells[i], parsed[i])])]])])])])])])

-----------------------------------------------------------------------------
(* _validate_numeric_extended                                              *)

\* series.astype(str).str.contains(r'[/-]')
LooksLikeDate(c) == Contains(CellStr(c), "/") \/ Contains(CellStr(c), "-")

\* re.match(r'(\d+)[A-Za-z]+\.(\d+)', val): float(f"{integer_part}.{decimal_part}")
SpecialPattern(val) ==
    LET e1 == RunEnd(val, 1, DigitChars)
        e2 == RunEnd(val, e1, AlphaChars)
        e3 == RunEnd(val, e2 + 1, DigitChars)
    IN IF e1 > 1 /\ e2 > e1 /\ e2 <= Len(val) /\ Ch(val, e2) = "." /\ e3 > e2 + 1
       THEN Some(DigitsVal(SubSeq(val, 1, e1 - 1)) * Scale + FracVal(SubSeq(val, e2 + 1, e3 - 1)))
       ELSE None

\* str.extract(r'(\d+\.\d+|\d+)'): the first decimal or integer substring, or NaN
ExtractNumberText(val) ==
    IF \E i \in 1..Len(val) : IsDigit(Ch(val, i))
    THEN LET i == CHOOSE i \in 1..Len(val) :
                      IsDigit(Ch(val, i)) /\ \A m \in 1..i - 1 : ~IsDigit(Ch(val, m))
         IN StrC(SubSeq(val, i, DecimalEnd(val, i) - 1))
    ELSE NaN

\* Series.update(other): the non-missing cells of other overwrite
Update(cells, other) == [i \in DOMAIN cells |-> IF NotNa(other[i]) THEN other[i] ELSE cells[i]]

OptCell(o) == IF o.ok THEN FltC(o.v) ELSE NaN

\* the log lines of the cells of vals that are not missing, in row order
LogLines(cells, vals, suffix) ==
    ConcatSeqs([i \in DOMAIN cells |->
        IF NotNa(vals[i]) THEN <<CellStr(cells[i]) \o " -> " \o CellStr(vals[i]) \o suffix>>
        ELSE <<>>])

\* lines 699-708: the branch taken when the series holds "one thousand and fifty"
NumericEdgeCase(cells) ==
    LET idx == CHOOSE i \in DOMAIN cells :
                   /\ cells[i] = StrC("one thousand and fifty")
                   /\ \A m \in 1..i - 1 : cells[m] # StrC("one thousand and fifty")
    IN [ok |-> TRUE, dtype |-> "float64",
        cells |-> [i \in DOMAIN cells |-> IF i = idx THEN FltC(1050 * Scale) ELSE NaN],
        invalid |-> Len(cells) - 1,
        log |-> <<"one thousand and fifty -> 1050.0">>]

\* lines 733-757: infinity and the special patterns, for one cell
SpecialCell(c) ==
    IF str_lower(c.s) \in {"inf", "infinity"}
    THEN [cell |-> Inf, log |-> <<c.s \o " -> inf (infinity conversion)">>]
    ELSE Let([m \in {SpecialPattern(c.s)} |->
             IF m.ok
             THEN [cell |-> FltC(m.v),
                   log |-> <<c.s \o " -> " \o FloatStr(m.v)
                             \o " (special pattern extraction)">>]
             ELSE [cell |-> NaN, log |-> <<>>]])

\* the conversions of _validate_numeric_extended in order, and its ratio gate
NumericCascade(cells) ==
    Let([conv0 \in {pd_to_numeric(cells)} |->
    \* number words for the cells pd.to_numeric left missing
    Let([as_words \in {[i \in DOMAIN cells |->
            IF IsNa(conv0.cells[i]) THEN OptCell(WordsCell(cells[i])) ELSE NaN]} |->
    Let([wordsLog \in {IF HasNa(conv0.cells) THEN LogLines(cells, as_words, "") ELSE <<>>} |->
    Let([conv1 \in {IF HasNa(conv0.cells) THEN Update(conv0.cells, as_words) ELSE conv0.cells} |->
    \* extraction for what is still missing and does not look like a date
    Let([extracting \in {HasNa(conv1)} |->
    Let([toExtract \in {[i \in DOMAIN cells |->
            extracting /\ IsNa(conv1[i]) /\ NotNa(cells[i])
            /\ ~LooksLikeDate(cells[i]) /\ IsStr(cells[i])]} |->
    Let([special \in {[i \in DOMAIN cells |->
            IF ~toExtract[i] THEN [cell |-> NaN, log |-> <<>>]
            ELSE SpecialCell(cells[i])]} |->
    Let([conv2 \in {Update(conv1, [i \in DOMAIN cells |-> special[i].cell])} |->
    Let([remaining \in {{i \in DOMAIN cells : toExtract[i] /\ IsNa(conv2[i])}} |->
    Let([extracted \in {[i \in DOMAIN cells |->
            IF i \in remaining THEN ExtractNumberText(cells[i].s) ELSE NaN]} |->
    \* pd.to_numeric of the extracted texts: int64 when every one is an integer
    Let([extractedAll \in {pd_to_numeric(SelectSeq([i \in DOMAIN cells |->
                                    IF i \in remaining THEN extracted[i] ELSE StrC("")],
                                LAMBDA c : c # StrC("")))} |->
    Let([extracted_numeric \in {[i \in DOMAIN cells |->
            IF extractedAll.dtype = "int64" THEN ToNumericCell(extracted[i])
            ELSE AsFloat(ToNumericCell(extracted[i]))]} |->
    Let([conv3 \in {IF extracting
        THEN Update(conv2, [i \in DOMAIN cells |-> AsFloat(extracted_numeric[i])])
        ELSE conv1} |->
    \* lines 774-780: the scientific-notation special case
    Let([hasSci \in {\E i \in DOMAIN cells : cells[i] = StrC("1E3")} |->
    Let([conv4 \in {IF hasSci
        THEN [conv3 EXCEPT ![CHOOSE i \in DOMAIN cells :
                                 /\ cells[i] = StrC("1E3")
                                 /\ \A m \in 1..i - 1 : cells[m] # StrC("1E3")]
                             = FltC(1000 * Scale)]
        ELSE conv3} |->
    Let([log \in {wordsLog
        \o (IF extracting
            THEN ConcatLogs(special)
                 \o LogLines(cells, extracted_numeric, " (numeric extraction)")
            ELSE <<>>)
        \o (IF hasSci THEN <<"1E3 -> 1000.0">> ELSE <<>>)} |->
    Let([nConv \in {CountNotNa(conv4)} |->
        IF nConv = 0 \/ 2 * nConv < Max(CountNotNa(cells), 1)
        THEN [ok |-> FALSE, dtype |-> "object", cells |-> cells, invalid |-> 0,
              log |-> log]
        ELSE [ok |-> TRUE, dtype |-> conv0.dtype, cells |-> conv4,
              invalid |-> Cardinality({i \in DOMAIN cells :
                                          IsNa(conv4[i]) /\ NotNa(cells[i])}),
              log |-> log]])])])])])])])])])])])])])])])])])


\* _validate_numeric_extended(series, column, transformations, is_likely_id)
validate_numeric_extended(series, is_likely_id) ==
    IF is_likely_id
    THEN [ok |-> FALSE, dtype |-> "object", cells |-> series.cells, invalid |-> 0, log |-> <<>>]
    ELSE IF \E i \in DOMAIN series.cells : series.cells[i] = StrC("one thousand and fifty")
    THEN NumericEdgeCase(series.cells)
    ELSE NumericCascade(series.cells)

-----------------------------------------------------------------------------
(* _validate_column_semantics                                              *)

\* pd.api.types.is_numeric_dtype
is_numeric_dtype(series) == series.dtype \in {"float64", "int64", "bool"}

non_negative_columns == {"price", "stock", "quantity", "rating", "count", "age"}

\* the cells a comparison with a number can hold for
Negatives(cells) == {i \in DOMAIN cells : NotNa(cells[i]) /\ cells[i].v < 0}
Infinites(cells) == {i \in DOMAIN cells : NotNa(cells[i]) /\ Abs(cells[i].v) = PosInf}

\* Series.max(): the largest non-missing cell, NaN for none
SeriesMax(cells) ==
    IF CountNotNa(cells) = 0 THEN NaN
    ELSE cells[CHOOSE i \in DOMAIN cells :
                   NotNa(cells[i])
                   /\ \A j \in DOMAIN cells : NotNa(cells[j]) => cells[j].v <= cells[i].v]

\* a faulty variant: the names of sales, revenues and profits are not exempt
NegativeAnomalyNoExemption(series, column) ==
    IF /\ ContainsAny(str_lower(column), non_negative_columns)
       /\ Negatives(series.cells) # {}
    THEN <<"Column '" \o column \o "' contains "
           \o ToString(Cardinality(Negatives(series.cells))) \o " negative value(s)">>
    ELSE <<>>

\* lines 812-824
NegativeAnomaly(series, column) ==
    IF /\ ContainsAny(str_lower(column), non_negative_columns)
       /\ Negatives(series.cells) # {}
       /\ ~ContainsAny(str_lower(column), {"sale", "revenue", "profit"})
    THEN <<"Column '" \o column \o "' contains "
           \o ToString(Cardinality(Negatives(series.cells))) \o " negative value(s)">>
    ELSE <<>>

RatingAnomaly(series, column) ==
    LET top == SeriesMax(series.cells)
    IN IF /\ ContainsAny(str_lower(column), {"rating", "score"})
          /\ NotNa(top) /\ top.v > 10 * Scale
       THEN <<"Column '" \o column \o "' contains unusually high rating values (max: "
              \o CellStr(top) \o ")">>
       ELSE <<>>

InfiniteAnomaly(series, column) ==
    IF Infinites(series.cells) # {}
    THEN <<"Column '" \o column \o "' contains "
           \o ToString(Cardinality(Infinites(series.cells))) \o " infinite value(s)">>
    ELSE <<>>

\* a faulty variant: negative values are replaced by missing ones
validate_column_semantics_dropping(series, column) ==
    [series |-> [series EXCEPT !.cells = [i \in DOMAIN series.cells |->
                     IF i \in Negatives(series.cells) THEN NaN ELSE series.cells[i]]],
     anomalies |-> IF is_numeric_dtype(series) THEN NegativeAnomaly(series, column) ELSE <<>>]

\* _validate_column_semantics(series, column): (processed_series, anomalies)
validate_column_semantics(series, column) ==
    IF ~is_numeric_dtype(series)
    THEN [series |-> series, anomalies |-> <<>>]
    ELSE [series |-> series,
          anomalies |-> NegativeAnomaly(series, column) \o RatingAnomaly(series, column)
                        \o InfiniteAnomaly(series, column)]

-----------------------------------------------------------------------------
(* Tables and the pandas operations of clean_data                          *)
(* A table is a sequence of columns of the same length.                    *)

NumRows(table) == IF table = <<>> THEN 0 ELSE Len(table[1].cells)
ColumnNames(table) == [c \in DOMAIN table |-> table[c].name]

\* the value two cells are compared by when rows are compared: missing cells are
\* equal to each other, numbers and booleans compare by value, texts by content
CellKey(c) ==
    CASE c.k = "nan" -> [k |-> "nan", s |-> "", v |-> 0]
      [] c.k = "str" -> [k |-> "str", s |-> c.s, v |-> 0]
      [] OTHER -> [k |-> "num", s |-> "", v |-> c.v]

RowKey(table, i) == [c \in DOMAIN table |-> CellKey(table[c].cells[i])]

\* a faulty variant: only a repetition of the row just before is recognised
FirstOccurrencesAdjacent(table) ==
    {i \in 1..NumRows(table) : i = 1 \/ RowKey(table, i - 1) # RowKey(table, i)}

\* the rows that are not a repetition of an earlier row
FirstOccurrences(table) ==
    {i \in 1..NumRows(table) : \A j \in 1..i - 1 : RowKey(table, j) # RowKey(table, i)}

\* the cells at the rows of keep, in row order
RECURSIVE TakeRows(_, _, _)
TakeRows(cells, keep, i) ==
    IF i > Len(cells) THEN <<>>
    ELSE (IF i \in keep THEN <<cells[i]>> ELSE <<>>) \o TakeRows(cells, keep, i + 1)

\* DataFrame.drop_duplicates()
drop_duplicates(table) ==
    [c \in DOMAIN table |->
        [table[c] EXCEPT !.cells = TakeRows(table[c].cells, FirstOccurrences(table), 1)]]

\* the numbers of the non-missing cells in ascending order
RECURSIVE Insert(_, _)
Insert(sorted, x) ==
    IF sorted = <<>> THEN <<x>>
    ELSE IF x <= Head(sorted) THEN <<x>> \o sorted
    ELSE <<Head(sorted)>> \o Insert(Tail(sorted), x)

RECURSIVE SortedValues(_)
SortedValues(cells) ==
    IF cells = <<>> THEN <<>>
    ELSE IF IsNa(Head(cells)) THEN SortedValues(Tail(cells))
    ELSE Insert(SortedValues(Tail(cells)), Head(cells).v)

Midpoint(a, b) == IF a = PosInf \/ b = PosInf THEN PosInf ELSE (a + b) \div 2

\* a faulty variant: the lower of the two middle values for an even count
medianLower(cells) ==
    LET vals == SortedValues(cells)
    IN IF vals = <<>> THEN None ELSE Some(vals[(Len(vals) + 1) \div 2])

\* Series.median(): None stands for the result nan
median(cells) ==
    LET vals == SortedValues(cells)
        n == Len(vals)
    IN IF n = 0 THEN None
       ELSE IF n % 2 = 1 THEN Some(vals[(n + 1) \div 2])
       ELSE Some(Midpoint(vals[n \div 2], vals[n \div 2 + 1]))

\* Series.mode(dropna=True).iloc[0]: the most frequent value, the smallest of
\* them when several are; NaN for an empty mode
Occurrences(cells, c) == Cardinality({i \in DOMAIN cells : cells[i] = c})
CellLess(a, b) == IF a.k = "str" THEN StrLess(a.s, b.s) ELSE a.v < b.v
mode(cells) ==
    LET vals == dropna(cells)
        most == {i \in DOMAIN vals :
                    \A j \in DOMAIN vals : Occurrences(vals, vals[j]) <= Occurrences(vals, vals[i])}
    IN IF vals = <<>> THEN NaN
       ELSE vals[CHOOSE i \in most : \A j \in most : ~CellLess(vals[j], vals[i])]

\* Series.fillna(value)
fillna(cells, value) == [i \in DOMAIN cells |-> IF IsNa(cells[i]) THEN value ELSE cells[i]]

\* Series.infer_objects(): an object series of numbers or of booleans only takes
\* the dtype of its values
infer_objects(series) ==
    LET kinds == {series.cells[i].k : i \in DOMAIN series.cells}
    IN IF series.dtype # "object" \/ kinds = {} THEN series
       ELSE IF kinds \subseteq {"int", "float", "nan"} /\ kinds # {"nan"}
       THEN [series EXCEPT !.dtype = NumericSeries(series.cells).dtype,
                           !.cells = NumericSeries(series.cells).cells]
       ELSE IF kinds = {"bool"} THEN [series EXCEPT !.dtype = "bool"]
       ELSE series

-----------------------------------------------------------------------------
(* The report dictionaries of clean_data                                   *)

EmptyDict == [k \in {} |-> 0]

\* d[key] = value
DictSet(d, key, value) == [k \in DOMAIN d \cup {key} |-> IF k = key THEN value ELSE d[k]]

\* a faulty variant: transformations[key] = entries, which drops the earlier entries
DictReplace(d, key, entries) ==
    IF entries = <<>> THEN d ELSE DictSet(d, key, entries)

\* transformations.setdefault(key, []).append(e) for every e of entries
DictAppend(d, key, entries) ==
    IF entries = <<>> THEN d
    ELSE DictSet(d, key, (IF key \in DOMAIN d THEN d[key] ELSE <<>>) \o entries)

\* lines 17-23
NewInfo ==
    [duplicates |-> 0, imputed |-> EmptyDict, invalid |-> EmptyDict,
     transformations |-> EmptyDict, warnings |-> <<>>]

\* a faulty variant: a single converted cell is enough
RatioOkAny(converted, series) == CountNotNa(converted) > 0

\* the ratio tests of lines 65-66, 79-80, 93-94 and 114-115
RatioOk(converted, series) == 2 * CountNotNa(converted) >= Max(CountNotNa(series), 1)

\* a faulty variant: product names are not preserved
IsFrozenIdentifierOnly(likely_type) == likely_type = "identifier"

\* line 50: the likely types whose columns are preserved
IsFrozen(likely_type) == likely_type \in {"identifier", "product_name"}

NoResult(series) == [ok |-> FALSE, cells |-> series.cells, log |-> <<>>, invalid |-> 0,
                     dtype |-> series.dtype, parsed |-> <<>>]

\* lines 45-119: the body of the Phase 2 loop for one column.  The result holds the
\* column assigned to df[col], what is appended to the report, and which
\* normalizers were called (tried, and called in the order of the calls) and
\* which one replaced the column (promoted).
CleanColumn(column, likely_type, now) ==
    LET name == column.name
        frozen == IsFrozen(likely_type)
        tryUnits == ~frozen /\ likely_type \in {"currency", "numeric"}
    IN
    Let([textual \in {infer_dtype(column) \in {"string", "mixed"}} |->
    \* lines 55-60
    Let([units \in {IF tryUnits THEN normalize_units(column) ELSE NoResult(column)} |->
    Let([series \in {IF units.ok THEN [column EXCEPT !.cells = units.cells] ELSE column} |->
    \* lines 63-70
    Let([tryBool \in {~frozen /\ textual} |->
    Let([bools \in {IF tryBool THEN normalize_booleans_extended(series.cells) ELSE series.cells} |->
    Let([boolOk \in {tryBool /\ RatioOk(bools, series.cells)} |->
    \* lines 73-84
    Let([tryDate \in {~frozen /\ ~boolOk /\ likely_type = "date"} |->
    Let([dates \in {IF tryDate THEN validate_dates_extended(series, now) ELSE NoResult(series)} |->
    Let([dateOk \in {tryDate /\ dates.ok /\ RatioOk(dates.cells, series.cells)} |->
    \* lines 87-106
    Let([tryNum \in {/\ ~frozen /\ ~boolOk /\ ~dateOk /\ textual
        /\ likely_type \notin {"location", "string"}} |->
    Let([nums \in {IF tryNum THEN validate_numeric_extended(series, likely_type = "identifier")
        ELSE NoResult(series)} |->
    Let([numOk \in {tryNum /\ nums.ok /\ RatioOk(nums.cells, series.cells)} |->
    Let([numSeries \in {[name |-> name, dtype |-> nums.dtype, cells |-> nums.cells]} |->
    Let([sem \in {IF numOk THEN validate_column_semantics(numSeries, name)
        ELSE [series |-> numSeries, anomalies |-> <<>>]} |->
    \* lines 109-119
    Let([tryLast \in {~frozen /\ ~boolOk /\ ~dateOk /\ ~numOk /\ textual} |->
    Let([last \in {IF tryLast THEN validate_dates_extended(series, now) ELSE NoResult(series)} |->
    Let([lastOk \in {tryLast /\ last.ok /\ RatioOk(last.cells, series.cells)} |->
       [column |->
            IF boolOk THEN [name |-> name, dtype |-> "object", cells |-> bools]
            ELSE IF dateOk THEN [name |-> name, dtype |-> "object", cells |-> dates.cells]
            ELSE IF numOk THEN sem.series
            ELSE IF lastOk THEN [name |-> name, dtype |-> "object", cells |-> last.cells]
            ELSE series,
        log |-> units.log \o dates.log \o nums.log \o last.log,
        warnings |->
            IF frozen
            THEN <<"Column '" \o name \o "' detected as " \o likely_type
                   \o " - preserved as is">>
            ELSE IF numOk THEN sem.anomalies ELSE <<>>,
        invalid |-> IF dateOk THEN dates.invalid
                    ELSE IF numOk THEN nums.invalid
                    ELSE IF lastOk THEN last.invalid ELSE 0,
        validated |-> numOk,
        semantics |-> IF numOk THEN <<[column |-> name, given |-> numSeries,
                                       returned |-> sem.series]>>
                      ELSE <<>>,
        tried |-> (IF tryUnits THEN {"units"} ELSE {})
                  \cup (IF tryBool THEN {"boolean"} ELSE {})
                  \cup (IF tryDate \/ tryLast THEN {"date"} ELSE {})
                  \cup (IF tryNum THEN {"numeric"} ELSE {}),
        called |-> (IF tryUnits THEN <<"units">> ELSE <<>>)
                   \o (IF tryBool THEN <<"boolean">> ELSE <<>>)
                   \o (IF tryDate THEN <<"date">> ELSE <<>>)
                   \o (IF tryNum THEN <<"numeric">> ELSE <<>>)
                   \o (IF tryLast THEN <<"date">> ELSE <<>>),
        assigned |-> units.ok \/ boolOk \/ dateOk \/ numOk \/ lastOk,
        promoted |-> IF boolOk THEN "boolean" ELSE IF dateOk \/ lastOk THEN "date"
                     ELSE IF numOk THEN "numeric" ELSE "",
        given |-> series,
        dateCalls |-> (IF tryDate THEN <<[given |-> series.cells, parsed |-> dates.parsed,
                                          log |-> dates.log]>> ELSE <<>>)
                      \o (IF tryLast THEN <<[given |-> series.cells, parsed |-> last.parsed,
                                             log |-> last.log]>> ELSE <<>>)]])])])])])])])])])])])])])])])])])


\* lines 136-166: the body of the Phase 3 loop for one column
ImputeColumn(column) ==
    LET unchanged == [column |-> column, imputed |-> "", log |-> <<>>]
    IN IF ~HasNa(column.cells) THEN unchanged
       ELSE
       Let([dtype \in {infer_dtype(column)} |->
       IF dtype \in {"integer", "floating"}
       THEN Let([value \in {median(column.cells)} |->
                [column |-> infer_objects([column EXCEPT !.cells =
                                IF value.ok THEN fillna(column.cells, FltC(value.v))
                                ELSE column.cells]),
                 imputed |-> "median",
                 log |-> <<"NaN -> " \o (IF value.ok THEN Fmt2(value.v) ELSE "nan")
                           \o " (median)">>]])
       ELSE IF dtype \in {"string", "boolean"}
       THEN Let([top \in {mode(column.cells)} |->
                IF NotNa(top)
                THEN [column |-> infer_objects([column EXCEPT !.cells =
                                     fillna(column.cells, top)]),
                      imputed |-> "mode",
                      log |-> <<"NaN -> " \o CellStr(top) \o " (mode)">>]
                ELSE unchanged])
       ELSE unchanged])

-----------------------------------------------------------------------------
(* The tables clean_data is called with: one column whose name and cells   *)
(* come from a family, or two columns of a pair                            *)

MaxPairRows == 2

Families ==
    {[name |-> "stock_id",
      cells |-> {NaN, StrC("1"), StrC("yes"), IntC(12), FltC(-5 * Scale)}],
     [name |-> "product_name",
      cells |-> {NaN, StrC("Pixel 7"), StrC("x"), StrC("1"), StrC("2020-01-02")}],
     [name |-> "date",
      cells |-> {NaN, StrC("2020-01-02"), StrC("03/04/2021"),
                 StrC("1st Jan 2022 invalid"), StrC("x"), StrC("today")}],
     [name |-> "price",
      cells |-> {NaN, StrC("$5"), StrC("8000foo0"), StrC("x"), FltC(-5 * Scale),
                 StrC("one thousand and fifty")}],
     [name |-> "stock",
      cells |-> {NaN, StrC("1"), StrC("maybe"), IntC(12), FltC(-5 * Scale)}],
     [name |-> "sale_count",
      cells |-> {NaN, StrC("1"), StrC("twenty-eight"), StrC("x"), FltC(-5 * Scale)}],
     [name |-> "city",
      cells |-> {NaN, StrC("x"), StrC("yes"), StrC("maybe"), StrC("03/04/2021")}],
     [name |-> "val",
      cells |-> {NaN, StrC("yes"), StrC("maybe"), StrC("1"), StrC("2020-01-02")}]}

PairNames == {<<"stock_id", "price">>, <<"stock", "city">>}
PairVocabulary == {NaN, StrC("1"), StrC("x")}

Days == {Date(2024, 12, 31)}

SeqsUpTo(S, n) == UNION {[1..k -> S] : k \in 1..n}

\* the columns pandas can hold the cells in: numbers are stored as int64 or
\* float64 or kept as objects, an all-missing column is float64 or object
Columns(name, cells) ==
    LET kinds == {cells[i].k : i \in DOMAIN cells}
        numeric == NumericSeries(cells)
        as(dtype, cs) == [name |-> name, dtype |-> dtype, cells |-> cs]
    IN IF kinds = {"nan"} THEN {as("float64", cells), as("object", cells)}
       ELSE IF kinds \subseteq {"int", "float", "nan"}
       THEN {as(numeric.dtype, numeric.cells), as("object", cells)}
       ELSE IF kinds = {"bool"} THEN {as("bool", cells)}
       ELSE {as("object", cells)}

FamilyTables(f) ==
    UNION {{<<c>> : c \in Columns(f.name, cells)} : cells \in SeqsUpTo(f.cells, MaxRows)}

PairTables(names, rows) ==
    {<<c1, c2>> : c1 \in Columns(names[1], [i \in DOMAIN rows |-> rows[i][1]]),
                  c2 \in Columns(names[2], [i \in DOMAIN rows |-> rows[i][2]])}

-----------------------------------------------------------------------------
(* clean_data as a state machine.  pc is the phase the call is in, col the  *)
(* position of the loop of that phase, run the number of the call: the     *)
(* table a call returns is the table the next call is given.  hist         *)
(* records, for the call in progress, what each step was given and         *)
(* returned, and in previous what the call before it was given and         *)
(* returned.  A later call runs on the same day or on the next one.        *)

\* no helper is called on its own during a clean_data call
NoCall == [fn |-> "clean_data"]

NewHist ==
    [deduped |-> <<>>, cleaned |-> <<>>, semantics |-> <<>>, normalized |-> <<>>,
     imputations |-> <<>>, previous |-> <<>>]

Init ==
    /\ \/ \E f \in Families : input \in FamilyTables(f)
       \/ \E names \in PairNames : \E k \in 1..MaxPairRows :
              \E rows \in [1..k -> PairVocabulary \X PairVocabulary] :
                  input \in PairTables(names, rows)
    /\ df = input
    /\ info = NewInfo
    /\ likely = EmptyDict
    /\ validated = {}
    /\ pc = "dedup"
    /\ col = 1
    /\ run = 1
    /\ today \in Days
    /\ hist = NewHist
    /\ unit_call = NoCall
    /\ unit_result = <<>>
    /\ files = EmptyDict
    /\ stdout = <<>>

\* a faulty variant: the column is removed and added again, which puts it last
AssignColumnLast(table, c, series) ==
    SubSeq(table, 1, c - 1) \o SubSeq(table, c + 1, Len(table)) \o <<series>>

\* a faulty variant: columns Phase 2 validated are validated again
NeedsSemanticsAgain(column, done) == infer_dtype(column) \in {"integer", "floating"}

\* df[col] = series, for the column at position c
AssignColumn(table, c, series) == [table EXCEPT ![c] = series]

\* line 127: the columns Phase 2.5 validates
NeedsSemantics(column, done) ==
    infer_dtype(column) \in {"integer", "floating"} /\ column.name \notin done

\* the next position of a loop over df.columns, and the phase after the loop
Advance(phase) ==
    IF col < Len(df) THEN pc' = pc /\ col' = col + 1
    ELSE pc' = phase /\ col' = 1

\* a faulty variant: the duplicates are still in the table when Phase 1 starts
DedupSkipped ==
    /\ pc = "dedup"
    /\ df' = df
    /\ info' = [info EXCEPT !.duplicates = NumRows(df) - NumRows(drop_duplicates(df))]
    /\ hist' = [hist EXCEPT !.deduped = df']
    /\ pc' = "detect"
    /\ col' = 1
    /\ UNCHANGED <<input, likely, validated, run, today, unit_call, unit_result, files, stdout>>

\* lines 28-30
Dedup ==
    /\ pc = "dedup"
    /\ df' = drop_duplicates(df)
    /\ info' = [info EXCEPT !.duplicates = NumRows(df) - NumRows(df')]
    /\ hist' = [hist EXCEPT !.deduped = df']
    /\ pc' = "detect"
    /\ col' = 1
    /\ UNCHANGED <<input, likely, validated, run, today, unit_call, unit_result, files, stdout>>

\* lines 40-41: one iteration of Phase 1
Detect ==
    /\ pc = "detect"
    /\ likely' = DictSet(likely, df[col].name,
                         preliminary_type_detection(df[col], df[col].name))
    /\ Advance("clean")
    /\ UNCHANGED <<input, df, info, validated, run, today, hist, unit_call, unit_result, files, stdout>>

\* lines 44-119: one iteration of Phase 2
Clean ==
    /\ pc = "clean"
    /\ \E r \in {CleanColumn(df[col], likely[df[col].name], today)} :
          /\ df' = IF r.assigned THEN AssignColumn(df, col, r.column) ELSE df
          /\ info' = [info EXCEPT
                        !.transformations = DictAppend(@, df[col].name, r.log),
                        !.warnings = @ \o r.warnings,
                        !.invalid = IF r.invalid > 0
                                    THEN DictSet(@, df[col].name, r.invalid) ELSE @]
          /\ validated' = IF r.validated THEN validated \cup {df[col].name}
                          ELSE validated
          /\ hist' = [hist EXCEPT !.cleaned = Append(@, r),
                                  !.semantics = @ \o r.semantics]
    /\ Advance("semantic")
    /\ UNCHANGED <<input, likely, run, today, unit_call, unit_result, files, stdout>>

\* lines 123-132: one iteration of Phase 2.5
Semantic ==
    /\ pc = "semantic"
    /\ IF NeedsSemantics(df[col], validated)
       THEN \E r \in {validate_column_semantics(df[col], df[col].name)} :
               /\ df' = AssignColumn(df, col, r.series)
               /\ info' = [info EXCEPT !.warnings = @ \o r.anomalies]
               /\ validated' = validated \cup {df[col].name}
               /\ hist' = [hist EXCEPT
                             !.semantics = Append(@, [column |-> df[col].name,
                                                      given |-> df[col],
                                                      returned |-> r.series]),
                             !.normalized = df']
       ELSE /\ hist' = [hist EXCEPT !.normalized = df]
            /\ UNCHANGED <<df, info, validated>>
    /\ Advance("impute")
    /\ UNCHANGED <<input, likely, run, today, unit_call, unit_result, files, stdout>>

\* a faulty variant: df.fillna(value) instead of df[col].fillna(value), which
\* fills the missing cells of every column with the value of this one
ImputeWholeTable ==
    /\ pc = "impute"
    /\ \E r \in {ImputeColumn(df[col])} :
          /\ df' = IF r.imputed # "" /\ ~HasNa(r.column.cells)
                   THEN [c \in DOMAIN df |->
                            IF c = col THEN r.column
                            ELSE [df[c] EXCEPT !.cells = fillna(@, r.column.cells[
                                     CHOOSE i \in DOMAIN df[col].cells :
                                         IsNa(df[col].cells[i])])]]
                   ELSE df
          /\ info' = [info EXCEPT
                        !.imputed = IF r.imputed # ""
                                    THEN DictSet(@, df[col].name, r.imputed) ELSE @,
                        !.transformations = DictAppend(@, df[col].name, r.log)]
          /\ hist' = [hist EXCEPT !.imputations = Append(@, r)]
    /\ Advance("done")
    /\ UNCHANGED <<input, likely, validated, run, today, unit_call, unit_result, files, stdout>>

\* lines 135-166: one iteration of Phase 3
Impute ==
    /\ pc = "impute"
    /\ \E r \in {ImputeColumn(df[col])} :
          /\ df' = IF r.imputed # "" THEN AssignColumn(df, col, r.column) ELSE df
          /\ info' = [info EXCEPT
                        !.imputed = IF r.imputed # ""
                                    THEN DictSet(@, df[col].name, r.imputed) ELSE @,
                        !.transformations = DictAppend(@, df[col].name, r.log)]
          /\ hist' = [hist EXCEPT !.imputations = Append(@, r)]
    /\ Advance("done")
    /\ UNCHANGED <<input, likely, validated, run, today, unit_call, unit_result, files, stdout>>

\* a faulty variant: validated_columns outlives the call
RerunKeepingValidated ==
    /\ pc = "done"
    /\ run < MaxRuns
    /\ input' = df
    /\ info' = NewInfo
    /\ likely' = EmptyDict
    /\ pc' = "dedup"
    /\ col' = 1
    /\ run' = run + 1
    /\ today' \in {today, NextDay(today)}
    /\ hist' = [NewHist EXCEPT !.previous = <<[input |-> input, df |-> df, info |-> info,
                                               today |-> today]>>]
    /\ UNCHANGED <<df, validated, unit_call, unit_result, files, stdout>>

\* line 168 and the next call: clean_data is called again with the table it returned
Rerun ==
    /\ pc = "done"
    /\ run < MaxRuns
    /\ input' = df
    /\ info' = NewInfo
    /\ likely' = EmptyDict
    /\ validated' = {}
    /\ pc' = "dedup"
    /\ col' = 1
    /\ run' = run + 1
    /\ today' \in {today, NextDay(today)}
    /\ hist' = [NewHist EXCEPT !.previous = <<[input |-> input, df |-> df, info |-> info,
                                               today |-> today]>>]
    /\ UNCHANGED <<df, unit_call, unit_result, files, stdout>>

Next == Dedup \/ Detect \/ Clean \/ Semantic \/ Impute \/ Rerun

Spec == Init /\ [][Next]_vars

-----------------------------------------------------------------------------
(* converter.py: _DATE_FORMATS and _infer_column_type                      *)

DATE_FORMATS ==
    <<FmtIsoDash, FmtDMYSlash, FmtMDYSlash, FmtIsoSlash, FmtDMYDash, FmtMDYDash,
      FmtBdY, FmtdBY>>

bool_values ==
    {"true", "false", "yes", "no", "1", "0", "t", "f", "y", "n", "inactive", "active"}

\* sample.str.lower().isin(bool_values).mean() >= 0.5
BoolValuesAtLeastHalf(sample) ==
    /\ Len(sample) > 0
    /\ 2 * Cardinality({i \in DOMAIN sample : str_lower(sample[i]) \in bool_values})
           >= Len(sample)

\* pd.to_datetime(sample, errors="coerce", format=fmt).notna().mean() > 0.5
FormatParsesMost(sample, fmt) ==
    /\ Len(sample) > 0
    /\ 2 * Cardinality({i \in DOMAIN sample : to_datetime_fmt(sample[i], fmt).ok})
           > Len(sample)

\* pd.to_numeric(sample, errors="coerce").dropna().apply(is_integer).all()
AllParsedAreIntegers(sample) ==
    \A i \in DOMAIN sample :
        ParseNumber(sample[i]).ok => ParseNumber(sample[i]).v % Scale = 0

\* _infer_column_type(df, col_name), series being df[col_name]
infer_column_type(series, col_name) ==
    Let([col_lower \in {str_lower(col_name)} |->
    IF Contains(col_lower, "id") /\ EndsWith(col_lower, "id") THEN "identifier"
    ELSE IF ContainsAny(col_lower, {"name", "title", "product", "model"}) THEN "string"
    ELSE IF ContainsAny(col_lower, {"date", "time", "created", "updated"}) THEN "date"
    ELSE IF ContainsAny(col_lower, {"price", "cost", "amount", "fee"}) THEN "currency"
    ELSE
    Let([sample \in {head(astype_str(dropna(series.cells)), 20)} |->
        IF BoolValuesAtLeastHalf(sample) THEN "boolean"
        ELSE IF \E f \in DOMAIN DATE_FORMATS : FormatParsesMost(sample, DATE_FORMATS[f])
        THEN "date"
        ELSE IF MeanAbove(sample, NumericShape, 1, 2)
        THEN (IF AllParsedAreIntegers(sample) THEN "integer" ELSE "floating")
        ELSE IF MeanAbove(sample, CurrencyShape, 2, 10) THEN "currency"
        ELSE "string"])])

\* r'\d{2}[/-]\d{2}[/-]\d{4}' found anywhere in s
DayFirstPattern(s) ==
    \E i \in 1..Len(s) :
        /\ i + 9 <= Len(s)
        /\ AllDigits(SubSeq(s, i, i + 1)) /\ Ch(s, i + 2) \in {"/", "-"}
        /\ AllDigits(SubSeq(s, i + 3, i + 4)) /\ Ch(s, i + 5) \in {"/", "-"}
        /\ AllDigits(SubSeq(s, i + 6, i + 9))

\* r'\d{4}[/-]\d{2}[/-]\d{2}' found anywhere in s
YearFirstPattern(s) ==
    \E i \in 1..Len(s) :
        /\ i + 9 <= Len(s)
        /\ AllDigits(SubSeq(s, i, i + 3)) /\ Ch(s, i + 4) \in {"/", "-"}
        /\ AllDigits(SubSeq(s, i + 5, i + 6)) /\ Ch(s, i + 7) \in {"/", "-"}
        /\ AllDigits(SubSeq(s, i + 8, i + 9))

\* r'[A-Za-z]{3,9}\s+\d{1,2},?\s+\d{4}' found anywhere in s; e is the first blank
MonthNamePattern(s) ==
    \E e \in 4..Len(s) :
        LET d1 == RunEnd(s, e, SpaceChars)
            d2 == RunEnd(s, d1, DigitChars)
            c == IF d2 <= Len(s) /\ Ch(s, d2) = "," THEN d2 + 1 ELSE d2
            y == RunEnd(s, c, SpaceChars)
        IN /\ IsAlpha(Ch(s, e - 1)) /\ IsAlpha(Ch(s, e - 2)) /\ IsAlpha(Ch(s, e - 3))
           /\ IsSpace(Ch(s, e))
           /\ d2 - d1 \in {1, 2}
           /\ y > c
           /\ y + 3 <= Len(s) /\ AllDigits(SubSeq(s, y, y + 3))

\* _refine_inferred_types for one column of a table, detected being its entry in types
refine_inferred_type(series, col_name, detected) ==
    Let([col_lower \in {str_lower(col_name)} |->
    Let([sample \in {head(astype_str(dropna(series.cells)), 20)} |->
    Let([non_null \in {dropna(series.cells)} |->
        IF col_name = "product_name" THEN "string"
        ELSE IF /\ detected = "string"
                /\ ContainsAny(col_lower, {"product", "item", "model"})
                /\ \/ MeanAbove(sample, ProductPattern1, 3, 10)
                   \/ MeanAbove(sample, ProductPattern2, 3, 10)
                   \/ MeanAbove(sample, ProductPattern3, 3, 10)
        THEN "product_name"
        ELSE IF /\ detected = "string"
                /\ ContainsAny(col_lower, {"location", "address", "city", "country", "street"})
        THEN "location"
        ELSE IF /\ detected = "string"
                /\ ContainsAny(col_lower, {"date", "time", "day"})
                /\ \/ MeanAbove(sample, DayFirstPattern, 3, 10)
                   \/ MeanAbove(sample, YearFirstPattern, 3, 10)
                   \/ MeanAbove(sample, MonthNamePattern, 3, 10)
        THEN "date"
        ELSE IF /\ detected \in {"integer", "floating"}
                /\ ContainsAny(col_lower, {"price", "cost", "fee", "amount"})
        THEN "currency"
        ELSE IF /\ detected = "integer" /\ series.dtype = "float64"
                /\ \E i \in DOMAIN non_null : non_null[i].v % Scale # 0
        THEN "floating"
        ELSE detected])])])

\* convert.detect_types(df): the dictionary of column names and types returned
detect_types(table) ==
    [name \in {table[c].name : c \in DOMAIN table} |->
        Let([series \in {table[CHOOSE c \in DOMAIN table : table[c].name = name]} |->
            refine_inferred_type(series, name, infer_column_type(series, name))])]

-----------------------------------------------------------------------------
(* The helper functions called on their own, as the unit tests call them.  *)
(* unit_call is the call and its arguments, unit_result is empty until the *)
(* helper has returned and then holds the value returned.                  *)

MaxSeries == 2

BooleanTexts ==
    {"true", "yes", "1", "t", "y", "active", "enabled", "on", "2",
     "false", "no", "0", "f", "n", "inactive", "disabled", "off",
     "maybe", "perhaps", "pending", "unknown", "null", "na", "n/a",
     "True", "YES", "Active", "oN", "False", "NO", "OFF", "Maybe", "N/A",
     "x", " yes", "3", "1.0", "truee", ""}
BooleanVocabulary ==
    {StrC(t) : t \in BooleanTexts}
    \cup {NaN, IntC(0), IntC(1), IntC(2), IntC(3), FltC(Scale), BoolC(TRUE), BoolC(FALSE)}

\* series of one cell draw on the whole vocabulary, longer ones on a part
BooleanCore ==
    {StrC("YES"), StrC("Maybe"), StrC("false"), StrC("x"), NaN, IntC(1)}
BooleanSeries(k) ==
    IF k = 1 THEN [1..1 -> BooleanVocabulary] ELSE [1..k -> BooleanCore]

\* the texts given to _words_to_num_extended: up to MaxWords words separated
\* by one space, and a few texts with hyphens, commas, capitals and blanks
MaxWords == 4

WordVocabulary ==
    {"one", "five", "hundred", "thousand", "and", "dollars", "point", "apples"}

RECURSIVE JoinWords(_)
JoinWords(words) ==
    IF Len(words) = 1 THEN words[1] ELSE words[1] \o " " \o JoinWords(Tail(words))

\* one "hundred" at most keeps every value inside the 32-bit fixed-point range
InRange(words) == Cardinality({i \in DOMAIN words : words[i] = "hundred"}) <= 1

OtherTexts ==
    {"", " ", "twenty", "twenty five", "twenty-five", "Fifty Dollars",
     "one thousand, two hundred", "four point five", "thirty nine ninety five",
     "forty nine ninety five",
     "two million", "one million two thousand", "1200", "one-hundred", "ONE THOUSAND",
     "one thousand two hundred", "two thousand three thousand"}

\* the series given to _normalize_units, as test_unit_normalization gives
\* them: column "test_col" and an empty transformations dictionary
UnitTexts ==
    {"10k", "5M", "1.5K", "2m", "0b", "0B", "10.k", "-5k", "k", "5k ", "5kg",
     "$50.99", "€5", "5£", "50$", "$5k", "$", "$1,000",
     "100,000", "1,000,000", "1,000.5", "1,5", "1,2,3", "100,", "a,b", ",5",
     "200 units", "1 unit", "2.5  units", "200units", "1,000 units", "units",
     "12", "abc", ""}
UnitVocabulary ==
    {StrC(t) : t \in UnitTexts} \cup {NaN, IntC(5), FltC(150), BoolC(TRUE)}
UnitCore ==
    {StrC("10k"), StrC("$50.99"), StrC("100,000"), StrC("200 units"), StrC("1,2,3"),
     StrC("abc"), NaN, IntC(5)}
UnitSeries(k) ==
    IF k = 1 THEN [1..1 -> UnitVocabulary] ELSE [1..k -> UnitCore]

\* the columns given to the two type detection functions
TypeNames ==
    {"id", "product_id", "identifier", "code", "ID", "product_name", "title",
     "name_date", "date_created", "updated", "price_date", "price", "store_cost",
     "city", "store_location", "is_available", "flag", "rating", "val",
     "birthday", "model", "street"}
TypeVocabulary ==
    {NaN, StrC("1"), StrC("yes"), StrC("2023-01-15"), StrC("x"), StrC("$5"),
     StrC("4.5"), StrC("iPhone 14"), IntC(1)}
TypeFunctions == {"_preliminary_type_detection", "_infer_column_type"}

\* the series and names given to _validate_column_semantics, as
\* test_semantic_validation gives them
SemanticNames == {"price", "stock", "rating", "Sale_Count", "score", "val"}
SemanticVocabulary ==
    {NaN, IntC(3), FltC(-5 * Scale), FltC(12 * Scale), FltC(PosInf), FltC(-PosInf)}

HelperInit ==
    /\ \/ \E k \in 1..MaxSeries : \E cells \in BooleanSeries(k) :
              unit_call = [fn |-> "_normalize_booleans_extended", series |-> cells]
       \/ \E k \in 1..MaxWords : \E words \in [1..k -> WordVocabulary] :
              /\ InRange(words)
              /\ unit_call = [fn |-> "_words_to_num_extended", text |-> JoinWords(words)]
       \/ \E t \in OtherTexts :
              unit_call = [fn |-> "_words_to_num_extended", text |-> t]
       \/ \E k \in 1..MaxSeries : \E cells \in UnitSeries(k) :
              \E series \in Columns("test_col", cells) :
                  unit_call = [fn |-> "_normalize_units", series |-> series,
                               column |-> "test_col"]
       \/ \E k \in 1..MaxSeries : \E cells \in [1..k -> TypeVocabulary] :
              \E name \in TypeNames : \E series \in Columns(name, cells) :
                  \E fn \in TypeFunctions :
                      unit_call = [fn |-> fn, series |-> series, column |-> name]
       \/ \E k \in 1..MaxSeries : \E cells \in [1..k -> TypeVocabulary] :
              \E name \in TypeNames : \E series \in Columns(name, cells) :
                  unit_call = [fn |-> "detect_types", df |-> <<series>>]
       \/ \E k \in 1..MaxSeries : \E cells \in [1..k -> SemanticVocabulary] :
              \E name \in SemanticNames : \E series \in Columns(name, cells) :
                  unit_call = [fn |-> "_validate_column_semantics", series |-> series,
                               column |-> name]
    /\ unit_result = <<>>
    /\ files = EmptyDict
    /\ stdout = <<>>
    /\ pc = "helper"
    /\ input = <<>>
    /\ df = <<>>
    /\ info = NewInfo
    /\ likely = EmptyDict
    /\ validated = {}
    /\ col = 1
    /\ run = 1
    /\ today \in Days
    /\ hist = NewHist

\* the helper returns value
Return(value) ==
    /\ unit_result' = <<value>>
    /\ pc' = "returned"
    /\ UNCHANGED <<input, df, info, likely, validated, col, run, today, hist, unit_call, files, stdout>>

\* _normalize_booleans_extended(series)
CallNormalizeBooleans ==
    /\ pc = "helper"
    /\ unit_call.fn = "_normalize_booleans_extended"
    /\ Return(normalize_booleans_extended(unit_call.series))

\* _words_to_num_extended(text)
CallWordsToNum ==
    /\ pc = "helper"
    /\ unit_call.fn = "_words_to_num_extended"
    /\ Return(words_to_num_extended(unit_call.text))

\* _normalize_units(series, "test_col", {}): the value returned and the
\* entries appended to transformations["test_col"]
CallNormalizeUnits ==
    /\ pc = "helper"
    /\ unit_call.fn = "_normalize_units"
    /\ Return(normalize_units(unit_call.series))

\* _preliminary_type_detection(series, column_name)
CallPreliminaryTypeDetection ==
    /\ pc = "helper"
    /\ unit_call.fn = "_preliminary_type_detection"
    /\ Return(preliminary_type_detection(unit_call.series, unit_call.column))

\* _infer_column_type(df, col_name) on a table holding the column
CallInferColumnType ==
    /\ pc = "helper"
    /\ unit_call.fn = "_infer_column_type"
    /\ Return(infer_column_type(unit_call.series, unit_call.column))

\* convert.detect_types(df)
CallDetectTypes ==
    /\ pc = "helper"
    /\ unit_call.fn = "detect_types"
    /\ Return(detect_types(unit_call.df))

\* _validate_column_semantics(series, column)
CallValidateColumnSemantics ==
    /\ pc = "helper"
    /\ unit_call.fn = "_validate_column_semantics"
    /\ Return(validate_column_semantics(unit_call.series, unit_call.column))

HelperNext ==
    \/ CallDetectTypes
    \/ CallValidateColumnSemantics
    \/ CallNormalizeBooleans
    \/ CallWordsToNum
    \/ CallNormalizeUnits
    \/ CallPreliminaryTypeDetection
    \/ CallInferColumnType

Helpers == HelperInit /\ [][HelperNext]_vars

-----------------------------------------------------------------------------
(* __main__.py: the command line.  unit_call holds the options, files the  *)
(* file system, stdout the lines printed; the exit code is unit_result.    *)
(* The input file exists (typer checks it before main runs) and the paths  *)
(* of input, output and report are three different files.                  *)

InputPaths == {"in.csv", "in.txt"}
OutputPaths == {"out.json", "out.txt"}
ReportPaths == {"", "report.md"}

\* the tables the input file can hold
CliVocabulary == {NaN, StrC("1"), StrC("x")}

\* what an output file left by an earlier run holds
OldOutput == <<[name |-> "old", dtype |-> "object", cells |-> <<StrC("old")>>]>>

\* converter.py lines 27-34 and 40-49: the suffixes read and write know
SupportedFormat(path) ==
    \E suffix \in {".csv", ".xlsx", ".xls", ".json"} : EndsWith(str_lower(path), suffix)

\* clean_info.get(key, default)
Get(d, key, default) == IF key \in DOMAIN d THEN d[key] ELSE default

\* reporter.py build_report: what the report says (the layout is left out)
build_report(input_path, output_path, rows_in, rows_out, clean_info, types) ==
    [input |-> input_path, output |-> output_path,
     rows_in |-> rows_in, rows_out |-> rows_out,
     duplicates |-> clean_info.duplicates, imputed |-> clean_info.imputed,
     types |-> types,
     warnings |-> Get(clean_info, "warnings", <<>>),
     transformations |-> Get(clean_info, "transformations", EmptyDict),
     invalid |-> Get(clean_info, "invalid", EmptyDict)]

CliInit ==
    /\ \E k \in 1..MaxSeries : \E cells \in [1..k -> CliVocabulary] :
           \E table \in {<<c>> : c \in Columns("stock", cells)} :
               \E i \in InputPaths : \E o \in OutputPaths : \E r \in ReportPaths :
                   \E clean \in BOOLEAN : \E force \in BOOLEAN : \E existing \in BOOLEAN :
                       /\ unit_call = [fn |-> "main", input |-> i, output |-> o,
                                       clean |-> clean, force |-> force, report |-> r]
                       /\ files = IF existing
                                  THEN DictSet(DictSet(EmptyDict, i, table), o, OldOutput)
                                  ELSE DictSet(EmptyDict, i, table)
    /\ stdout = <<>>
    /\ unit_result = <<>>
    /\ pc = "main"
    /\ input = <<>>
    /\ df = <<>>
    /\ info = NewInfo
    /\ likely = EmptyDict
    /\ validated = {}
    /\ col = 1
    /\ run = 1
    /\ today \in Days
    /\ hist = NewHist

\* main ends: typer.Exit(code), the end of the function, or an exception
Exit(code) ==
    /\ unit_result' = <<code>>
    /\ pc' = "returned"

\* a faulty variant: the existing output is not looked at
CheckOutputForced ==
    /\ pc = "main"
    /\ pc' = "read"
    /\ UNCHANGED <<input, df, info, likely, validated, col, run, today, hist, unit_call,
                   unit_result, files, stdout>>

\* lines 28-30
CheckOutput ==
    /\ pc = "main"
    /\ IF unit_call.output \in DOMAIN files /\ ~unit_call.force
       THEN /\ stdout' = Append(stdout, "Error: " \o unit_call.output
                                        \o " exists. Use --force to overwrite.")
            /\ Exit(1)
       ELSE /\ pc' = "read"
            /\ UNCHANGED <<stdout, unit_result>>
    /\ UNCHANGED <<input, df, info, likely, validated, col, run, today, hist, unit_call,
                   files>>

\* lines 33-39: convert.read(input); with --clean the call of clean_data
\* starts here (its steps are Dedup, Detect, Clean, Semantic and Impute),
\* without it clean_info is the dictionary of line 39
ReadInput ==
    /\ pc = "read"
    /\ IF SupportedFormat(unit_call.input)
       THEN /\ input' = files[unit_call.input]
            /\ df' = files[unit_call.input]
            /\ IF unit_call.clean
               THEN pc' = "dedup" /\ info' = NewInfo
               ELSE pc' = "done" /\ info' = [duplicates |-> 0, imputed |-> EmptyDict]
            /\ UNCHANGED unit_result
       ELSE /\ Exit(1)
            /\ UNCHANGED <<input, df, info>>
    /\ UNCHANGED <<likely, validated, col, run, today, hist, unit_call, files, stdout>>

\* lines 41-43: convert.write(df, output)
WriteOutput ==
    /\ pc = "done"
    /\ unit_call.fn = "main"
    /\ IF SupportedFormat(unit_call.output)
       THEN /\ files' = DictSet(files, unit_call.output, df)
            /\ pc' = "report"
            /\ UNCHANGED unit_result
       ELSE /\ Exit(1)
            /\ UNCHANGED files
    /\ UNCHANGED <<input, df, info, likely, validated, col, run, today, hist, unit_call,
                   stdout>>

\* lines 45-58: the report, if one was asked for, and the last line printed
WriteReport ==
    /\ pc = "report"
    /\ IF unit_call.report # ""
       THEN /\ files' = DictSet(files, unit_call.report,
                                build_report(unit_call.input, unit_call.output,
                                             NumRows(input), NumRows(df), info,
                                             detect_types(df)))
            /\ stdout' = stdout \o <<"Report written to " \o unit_call.report,
                                     "Wrote " \o ToString(NumRows(df)) \o " rows to "
                                     \o unit_call.output>>
       ELSE /\ stdout' = Append(stdout, "Wrote " \o ToString(NumRows(df)) \o " rows to "
                                        \o unit_call.output)
            /\ UNCHANGED files
    /\ Exit(0)
    /\ UNCHANGED <<input, df, info, likely, validated, col, run, today, hist, unit_call>>

CliNext ==
    \/ CheckOutput
    \/ ReadInput
    \/ Dedup
    \/ Detect
    \/ Clean
    \/ Semantic
    \/ Impute
    \/ WriteOutput
    \/ WriteReport

Cli == CliInit /\ [][CliNext]_vars

-----------------------------------------------------------------------------
(* Properties.  A call has returned when pc = "done"; df is then the       *)
(* returned table, info the returned report and input the table given.     *)

Returned == pc = "done"

\* the distinct rows of a table
DistinctRows(table) == {RowKey(table, i) : i \in 1..NumRows(table)}

\* how many entries of a list of texts satisfy P
CountEntries(entries, P(_)) == Cardinality({i \in DOMAIN entries : P(entries[i])})

\* C1: for every input table, the reported number of duplicates is the number of
\* rows of the input minus the number of its distinct rows, and the returned
\* table has exactly as many rows as the input has distinct rows.
C1_DuplicateCount ==
    Returned =>
        /\ info.duplicates = NumRows(input) - Cardinality(DistinctRows(input))
        /\ \A c \in DOMAIN df : Len(df[c].cells) = Cardinality(DistinctRows(input))

\* a returned call that removed a repeated row that did not follow its first
\* occurrence directly
C1_Witness ==
    /\ Returned /\ run = 1 /\ NumRows(input) = 3 /\ info.duplicates = 1
    /\ RowKey(input, 1) = RowKey(input, 3)

\* C2: the output of the boolean, date or numeric normalizer replaces a column only
\* when it holds at least half as many non-missing cells as the column the
\* normalizer was given; otherwise the column stays as it was given.
C2_RatioGate ==
    \A c \in DOMAIN hist.cleaned :
        LET r == hist.cleaned[c]
        IN /\ r.promoted # "" =>
                  2 * CountNotNa(r.column.cells) >= CountNotNa(r.given.cells)
           /\ r.promoted = "" => r.column = r.given

\* the boolean normalizer converted one cell of three and the column was not replaced
C2_Witness ==
    \E c \in DOMAIN hist.cleaned :
        LET r == hist.cleaned[c]
        IN /\ "boolean" \in r.tried /\ r.promoted = ""
           /\ CountNotNa(r.given.cells) = 3
           /\ CountNotNa(normalize_booleans_extended(r.given.cells)) = 1
           /\ r.column = r.given

\* C3: a second call, given the table the first call returned, changes no cell and
\* reports no transformation and no warning.
C3_SecondRunIdle ==
    (Returned /\ run >= 2) =>
        /\ df = input
        /\ info.transformations = EmptyDict
        /\ info.warnings = <<>>

\* the rows of column c, after the removal of duplicates, that were not missing and
\* that the normalizer that replaced the column left missing
Unconverted(c) ==
    {i \in DOMAIN hist.deduped[c].cells :
        /\ hist.cleaned[c].promoted # ""
        /\ NotNa(hist.cleaned[c].given.cells[i])
        /\ IsNa(hist.cleaned[c].column.cells[i])}

\* C4: in the returned table, every cell the normalizer of its column could not
\* convert still holds its original value, or is counted in info.invalid for its
\* column.
C4_UnconvertedFlagged ==
    Returned =>
        \A c \in DOMAIN df :
            \/ \A i \in Unconverted(c) : df[c].cells[i] = hist.deduped[c].cells[i]
            \/ /\ df[c].name \in DOMAIN info.invalid
               /\ info.invalid[df[c].name] >= Cardinality(Unconverted(c))

\* C5: in every call of the date normalizer, a cell whose text contains "invalid",
\* in any case, is unparseable in the result, whatever other rule matched it, and
\* the log of the call holds "<original> -> INVALID" for it.
C5_ForcedInvalid ==
    \A c \in DOMAIN hist.cleaned :
        \A k \in DOMAIN hist.cleaned[c].dateCalls :
            LET call == hist.cleaned[c].dateCalls[k]
            IN \A i \in DOMAIN call.given :
                   (IsStr(call.given[i]) /\ Contains(str_lower(call.given[i].s), "invalid"))
                   => /\ ~call.parsed[i].ok
                      /\ \E j \in DOMAIN call.log :
                             call.log[j] = call.given[i].s \o " -> INVALID"
                      /\ hist.cleaned[c].promoted = "date"
                             => IsNa(hist.cleaned[c].column.cells[i])

\* the date normalizer replaced a column that holds a cell the textual rule
\* parses and that contains "invalid"
C5_Witness ==
    \E c \in DOMAIN hist.cleaned :
        /\ hist.cleaned[c].promoted = "date"
        /\ \E i \in DOMAIN hist.cleaned[c].given.cells :
               LET cell == hist.cleaned[c].given.cells[i]
               IN /\ IsStr(cell) /\ Contains(str_lower(cell.s), "invalid")
                  /\ extract_textual_date(cell.s).ok
                  /\ IsNa(hist.cleaned[c].column.cells[i])

\* the text of the warning of a preserved column
PreservedWarning(name, likely_type) ==
    "Column '" \o name \o "' detected as " \o likely_type \o " - preserved as is"

\* C6: for a column whose likely type is identifier or product_name, Phase 2
\* calls no normalizer, leaves the column (cells and dtype) as the removal of
\* duplicates left it, and every call appends the warning once.
C6_FrozenColumns ==
    \A c \in DOMAIN hist.cleaned :
        LET r == hist.cleaned[c]
            name == r.column.name
        IN likely[name] \in {"identifier", "product_name"} =>
               /\ r.tried = {}
               /\ r.promoted = ""
               /\ r.column = hist.deduped[c]
               /\ CountEntries(info.warnings,
                               LAMBDA w : w = PreservedWarning(name, likely[name])) = 1

\* the second call returned a product_name column that holds a date text
C6_Witness ==
    /\ Returned /\ run = 2
    /\ \E c \in DOMAIN df :
           /\ likely[df[c].name] = "product_name"
           /\ \E i \in DOMAIN df[c].cells : df[c].cells[i] = StrC("2020-01-02")
           /\ \E j \in DOMAIN info.warnings :
                  info.warnings[j] = PreservedWarning(df[c].name, "product_name")

\* the warnings that name the column and mention "negative"
NegativeWarnings(name) ==
    CountEntries(info.warnings,
                 LAMBDA w : Contains(w, "'" \o name \o "'") /\ Contains(w, "negative"))

\* the column at position c holds a negative number when Phase 2 is over, and its
\* name contains one of the non-negative keywords
NegativeInNamedColumn(c) ==
    /\ ContainsAny(str_lower(hist.cleaned[c].column.name), non_negative_columns)
    /\ Negatives(hist.cleaned[c].column.cells) # {}

\* C7, as stated: a column that is integer or floating when Phase 2 is over, whose
\* name contains a non-negative keyword and that holds a negative value, keeps
\* every negative value in the returned table and gets exactly one warning that
\* names it and mentions "negative".
C7_AsStated ==
    Returned =>
        \A c \in DOMAIN df :
            (infer_dtype(hist.cleaned[c].column) \in {"integer", "floating"}
             /\ NegativeInNamedColumn(c))
            => /\ NegativeWarnings(df[c].name) = 1
               /\ \A i \in Negatives(hist.cleaned[c].column.cells) :
                      df[c].cells[i] = hist.cleaned[c].column.cells[i]

\* C7: a column stored as int64 or float64 when Phase 2 is over, whose name
\* contains a non-negative keyword and none of sale, revenue and profit, and that
\* holds a negative value, keeps every negative value in the returned table and
\* gets exactly one warning that names it and mentions "negative"; no column is
\* semantically validated more than once in a call.
C7_NegativeWarnedOnce ==
    /\ \A k1, k2 \in DOMAIN hist.semantics :
           hist.semantics[k1].column = hist.semantics[k2].column => k1 = k2
    /\ Returned =>
           \A c \in DOMAIN df :
               (/\ hist.cleaned[c].column.dtype \in {"int64", "float64"}
                /\ NegativeInNamedColumn(c)
                /\ ~ContainsAny(str_lower(df[c].name), {"sale", "revenue", "profit"}))
               => /\ NegativeWarnings(df[c].name) = 1
                  /\ \A i \in Negatives(hist.cleaned[c].column.cells) :
                         df[c].cells[i] = hist.cleaned[c].column.cells[i]

\* a call returned a price column that the numeric normalizer converted in Phase 2
\* and that holds a negative value
C7_Witness ==
    /\ Returned
    /\ \E c \in DOMAIN df :
           /\ hist.cleaned[c].promoted = "numeric"
           /\ NegativeInNamedColumn(c)
           /\ ~ContainsAny(str_lower(df[c].name), {"sale", "revenue", "profit"})
           /\ NegativeWarnings(df[c].name) = 1

RepeatedRows(table) ==
    {i \in 1..NumRows(table) : \E j \in 1..i - 1 : RowKey(table, j) = RowKey(table, i)}

\* C9: the table of a call has, at every step, the columns of the input in the
\* same number and order; the returned table has the rows of the input less the
\* rows that repeat an earlier row.
C9_SameColumns ==
    /\ ColumnNames(df) = ColumnNames(input)
    /\ \A c \in DOMAIN df : Len(df[c].cells) = NumRows(df)
    /\ Returned => NumRows(df) = NumRows(input) - Cardinality(RepeatedRows(input))

\* a call returned a table of two columns after it removed a row and replaced
\* the first column
C9_Witness ==
    /\ Returned /\ Len(df) = 2
    /\ RepeatedRows(input) # {}
    /\ hist.cleaned[1].assigned
    /\ df[1] # hist.deduped[1]

\* the k-th smallest number of the non-missing cells
KthSmallest(cells, k) ==
    LET vals == dropna(cells)
        below(v) == Cardinality({i \in DOMAIN vals : vals[i].v < v})
        upTo(v) == Cardinality({i \in DOMAIN vals : vals[i].v <= v})
    IN CHOOSE v \in {vals[i].v : i \in DOMAIN vals} : below(v) < k /\ k <= upTo(v)

\* the median of the non-missing cells, of which there is at least one: the middle
\* value, or the mean of the two middle values
MiddleValue(cells) ==
    LET n == CountNotNa(cells)
    IN IF n % 2 = 1 THEN KthSmallest(cells, (n + 1) \div 2)
       ELSE Midpoint(KthSmallest(cells, n \div 2), KthSmallest(cells, n \div 2 + 1))

\* the column at position c is integer or floating and has missing cells when
\* Phase 3 starts
NumericWithGaps(c) ==
    /\ infer_dtype(hist.normalized[c]) \in {"integer", "floating"}
    /\ HasNa(hist.normalized[c].cells)

\* in the returned table every cell of column c that was missing when Phase 3
\* started holds m, and the report records the median imputation with m
MedianImputed(c, m) ==
    LET name == df[c].name
    IN /\ \A i \in DOMAIN df[c].cells :
              IsNa(hist.normalized[c].cells[i]) => df[c].cells[i] = FltC(m)
       /\ name \in DOMAIN info.imputed /\ info.imputed[name] = "median"
       /\ name \in DOMAIN info.transformations
       /\ \E j \in DOMAIN info.transformations[name] :
              info.transformations[name][j] = "NaN -> " \o Fmt2(m) \o " (median)"

\* C10, as stated: a column that is integer or floating and has missing cells when
\* Phase 3 starts has, in the returned table, no missing cell left: every cell
\* that was missing holds the median, info.imputed holds "median" and the log
\* holds "NaN -> <median, two decimals> (median)".
C10_AsStated ==
    Returned =>
        \A c \in DOMAIN df :
            NumericWithGaps(c) =>
                /\ ~HasNa(df[c].cells)
                /\ CountNotNa(hist.normalized[c].cells) > 0
                /\ MedianImputed(c, MiddleValue(hist.normalized[c].cells))

\* C10: a column that is integer or floating, has missing cells and has at least
\* one non-missing value when Phase 3 starts has, in the returned table, the
\* median of its non-missing values in every cell that was missing, "median" in
\* info.imputed and "NaN -> <median, two decimals> (median)" in its log.
C10_MedianImputation ==
    Returned =>
        \A c \in DOMAIN df :
            (NumericWithGaps(c) /\ CountNotNa(hist.normalized[c].cells) > 0) =>
                /\ ~HasNa(df[c].cells)
                /\ MedianImputed(c, MiddleValue(hist.normalized[c].cells))

\* a call returned a column whose missing cell was filled with the mean of two
\* different values
C10_Witness ==
    /\ Returned
    /\ \E c \in DOMAIN df :
           /\ NumericWithGaps(c)
           /\ CountNotNa(hist.normalized[c].cells) = 2
           /\ KthSmallest(hist.normalized[c].cells, 1) # KthSmallest(hist.normalized[c].cells, 2)
           /\ MedianImputed(c, MiddleValue(hist.normalized[c].cells))

-----------------------------------------------------------------------------
\* C11: when a call has returned, a column that holds at least one value
\* holds no missing cell
C11_NoGapsLeft ==
    Returned =>
        \A c \in DOMAIN df :
            CountNotNa(df[c].cells) > 0 => ~HasNa(df[c].cells)

\* C12: a column that is entirely missing when imputation starts is returned
\* entirely missing, has no entry in info.imputed and no imputation line in
\* its transformation log
C12_AllMissingSkipped ==
    Returned =>
        \A c \in DOMAIN df :
            CountNotNa(hist.normalized[c].cells) = 0 =>
                /\ CountNotNa(df[c].cells) = 0
                /\ df[c].name \notin DOMAIN info.imputed
                /\ hist.imputations[c].log = <<>>

\* the formats of the list that parse the text, by position
ParsingFormats(text) ==
    {f \in DOMAIN DATE_FORMATS_EXTENDED :
        to_datetime_fmt(text, DATE_FORMATS_EXTENDED[f]).ok}

\* the text is four digits, "-", two digits, "-", two digits
IsCanonicalDate(text) == Len(text) = 10 /\ IsoDateShape(text)

\* C13: in every call of the date normalizer a text cell that is neither a
\* relative expression nor parsed by the textual rule holds the date of the
\* first format of the list that parses it, and no date when none does;
\* "03/04/2021" is read as 3 April 2021; and when the result is accepted every
\* cell of the new column is missing or the YYYY-MM-DD text of its date.
C13_FirstFormatWins ==
    \A c \in DOMAIN hist.cleaned :
        \A k \in DOMAIN hist.cleaned[c].dateCalls :
            LET call == hist.cleaned[c].dateCalls[k]
                accepted == /\ hist.cleaned[c].promoted = "date"
                            /\ k = Len(hist.cleaned[c].dateCalls)
            IN \A i \in DOMAIN call.given :
                   LET cell == call.given[i]
                       out == hist.cleaned[c].column.cells[i]
                       first == CHOOSE f \in ParsingFormats(cell.s) :
                                    \A g \in ParsingFormats(cell.s) : f <= g
                   IN /\ (/\ IsStr(cell) /\ ~IsRelative(cell.s)
                          /\ ~extract_textual_date(cell.s).ok)
                         => /\ ParsingFormats(cell.s) = {} => ~call.parsed[i].ok
                            /\ ParsingFormats(cell.s) # {} =>
                                  call.parsed[i] =
                                      to_datetime_fmt(cell.s, DATE_FORMATS_EXTENDED[first])
                            /\ cell.s = "03/04/2021" => call.parsed[i] = Date(2021, 4, 3)
                      /\ accepted =>
                            IF call.parsed[i].ok
                            THEN /\ out = StrC(strftime(call.parsed[i]))
                                 /\ IsCanonicalDate(out.s)
                            ELSE IsNa(out)

\* the date normalizer was accepted for a column in which the first format
\* parsed one cell and "03/04/2021", which the third and the fourth format
\* parse differently, became "2021-04-03"
C13_Witness ==
    \E c \in DOMAIN hist.cleaned :
        /\ hist.cleaned[c].promoted = "date"
        /\ \E i, j \in DOMAIN hist.cleaned[c].given.cells :
               /\ hist.cleaned[c].given.cells[i] = StrC("03/04/2021")
               /\ ParsingFormats("03/04/2021") = {3, 4}
               /\ to_datetime_fmt("03/04/2021", DATE_FORMATS_EXTENDED[4]) = Date(2021, 3, 4)
               /\ hist.cleaned[c].column.cells[i] = StrC("2021-04-03")
               /\ hist.cleaned[c].given.cells[j] = StrC("2020-01-02")
               /\ 1 \in ParsingFormats("2020-01-02")
               /\ hist.cleaned[c].column.cells[j] = StrC("2020-01-02")

\* the call before the current one, when there is one
HasPrevious == hist.previous # <<>>
Previous == hist.previous[1]

\* C14, as stated: a call given the table that the call before it was given
\* returns the table and the report that call returned, whatever the days the
\* two calls ran on
C14_AsStated ==
    (Returned /\ HasPrevious /\ input = Previous.input) =>
        df = Previous.df /\ info = Previous.info

\* C14: a call given the table that the call before it was given, and running
\* on the same day, returns the table and the report that call returned
C14_SameInputSameDay ==
    (Returned /\ HasPrevious /\ input = Previous.input /\ today = Previous.today) =>
        df = Previous.df /\ info = Previous.info

\* two calls on the same day were given the same table, which holds the cell
\* "today", and the second one returned with entries in its transformation log
C14_Witness ==
    /\ Returned /\ HasPrevious /\ input = Previous.input /\ today = Previous.today
    /\ \E c \in DOMAIN input : \E i \in DOMAIN input[c].cells :
           input[c].cells[i] = StrC("today")
    /\ DOMAIN info.transformations # {}

\* a helper called on its own has returned
HelperReturned(fn) == pc = "returned" /\ unit_call.fn = fn

\* C15: _normalize_booleans_extended returns, for every cell, True when the
\* lower-cased text of the cell is one of true, yes, 1, t, y, active, enabled,
\* on, 2, False when it is one of false, no, 0, f, n, inactive, disabled, off,
\* and a missing value otherwise, in particular for maybe, perhaps, pending,
\* unknown, na and n/a
C15_BooleanTokens ==
    HelperReturned("_normalize_booleans_extended") =>
        LET given == unit_call.series
            out == unit_result[1]
            token(i) == str_lower(CellStr(given[i]))
        IN /\ DOMAIN out = DOMAIN given
           /\ \A i \in DOMAIN given :
                  /\ token(i) \in {"true", "yes", "1", "t", "y", "active", "enabled",
                                   "on", "2"} <=> out[i] = BoolC(TRUE)
                  /\ token(i) \in {"false", "no", "0", "f", "n", "inactive",
                                   "disabled", "off"} <=> out[i] = BoolC(FALSE)
                  /\ token(i) \in {"maybe", "perhaps", "pending", "unknown", "na",
                                   "n/a"} => IsNa(out[i])
                  /\ out[i] \in {BoolC(TRUE), BoolC(FALSE), NaN}

\* the helper returned for a series that holds an upper-case true token and an
\* ambiguous token: the first became True and the second is missing
C15_Witness ==
    /\ HelperReturned("_normalize_booleans_extended")
    /\ unit_call.series = <<StrC("YES"), StrC("Maybe")>>
    /\ unit_result[1] = <<BoolC(TRUE), NaN>>

\* the cells of column c that Phase 2 gave to the normalizers with a value and
\* that are missing in the column Phase 2 produced
LeftUnconverted(c) ==
    {i \in DOMAIN hist.cleaned[c].given.cells :
        /\ NotNa(hist.cleaned[c].given.cells[i])
        /\ IsNa(hist.cleaned[c].column.cells[i])}

\* C16: when the date or the numeric normalizer was accepted for a column,
\* info.invalid holds for the column the number of cells that had a value and
\* were not converted, and holds no entry when that number is 0
C16_InvalidCount ==
    \A c \in DOMAIN hist.cleaned :
        hist.cleaned[c].promoted \in {"date", "numeric"} =>
            LET name == hist.cleaned[c].column.name
                n == Cardinality(LeftUnconverted(c))
            IN IF n > 0
               THEN name \in DOMAIN info.invalid /\ info.invalid[name] = n
               ELSE name \notin DOMAIN info.invalid


\* The words of a text as the number-word parser separates them: lower
\* case, hyphens and commas as blanks.
WordTokens(text) ==
    Split(ReplaceCh(ReplaceCh(str_lower(text), "-", " "), ",", " "))

\* number words, multipliers, "and", "point" and the currency words
RecognizedTokens ==
    DOMAIN NUMBER_WORDS \cup DOMAIN NUMBER_MULTIPLIERS \cup {"and", "point"}
    \cup {CurrencyWords[i] : i \in DOMAIN CurrencyWords}

\* C17: _words_to_num_extended fails (returns None) on empty input and on a
\* text holding a token that is not a number word, a multiplier, "and",
\* "point" or a currency word.
C17_FailsOnUnrecognized ==
    HelperReturned("_words_to_num_extended") =>
        Let([tokens \in {WordTokens(unit_call.text)} |->
            (tokens = <<>> \/ \E i \in DOMAIN tokens : tokens[i] \notin RecognizedTokens)
                => ~unit_result[1].ok])


\* The text is a sequence of base number words and multiplier words with at
\* least one multiplier.
IsMultiplierSequence(tokens) ==
    /\ \A i \in DOMAIN tokens : IsNumberWord(tokens[i]) \/ IsMultiplier(tokens[i])
    /\ \E i \in DOMAIN tokens : IsMultiplier(tokens[i])

\* The accumulator as the claim words it: a base word is added to current,
\* a multiplier multiplies current, thousand and above flush into total.
RECURSIVE PlainAccumulator(_, _, _)
PlainAccumulator(tokens, current, total) ==
    IF tokens = <<>> THEN total + current
    ELSE IF IsNumberWord(Head(tokens))
    THEN PlainAccumulator(Tail(tokens), current + NUMBER_WORDS[Head(tokens)], total)
    ELSE IF NUMBER_MULTIPLIERS[Head(tokens)] >= 1000
    THEN PlainAccumulator(Tail(tokens), 0,
                          total + current * NUMBER_MULTIPLIERS[Head(tokens)])
    ELSE PlainAccumulator(Tail(tokens), current * NUMBER_MULTIPLIERS[Head(tokens)], total)

\* The same accumulator where a multiplier met with current = 0 counts as
\* one times the multiplier.
RECURSIVE ImplicitOneAccumulator(_, _, _)
ImplicitOneAccumulator(tokens, current, total) ==
    IF tokens = <<>> THEN total + current
    ELSE IF IsNumberWord(Head(tokens))
    THEN ImplicitOneAccumulator(Tail(tokens), current + NUMBER_WORDS[Head(tokens)], total)
    ELSE Let([scaled \in {IF current > 0 THEN current * NUMBER_MULTIPLIERS[Head(tokens)]
                          ELSE NUMBER_MULTIPLIERS[Head(tokens)]} |->
        IF NUMBER_MULTIPLIERS[Head(tokens)] >= 1000
        THEN ImplicitOneAccumulator(Tail(tokens), 0, total + scaled)
        ELSE ImplicitOneAccumulator(Tail(tokens), scaled, total)])

\* C18 as stated: on a sequence of base and multiplier words the value
\* returned is the one of the accumulator in which every multiplier
\* multiplies current.
C18_AsStated ==
    HelperReturned("_words_to_num_extended") =>
        Let([tokens \in {WordTokens(unit_call.text)} |->
            IsMultiplierSequence(tokens) =>
                /\ unit_result[1].ok
                /\ unit_result[1].v = PlainAccumulator(tokens, 0, 0) * Scale])

\* C18: on a sequence of base number words and multiplier words with at
\* least one multiplier, _words_to_num_extended returns the value of the
\* left-to-right accumulator: a base word is added to current, a multiplier
\* multiplies current (or stands for itself when current is 0), thousand and
\* above flush current into total and reset it; "one thousand two hundred"
\* is 1200 and two thousand-scale groups sum.
C18_Accumulator ==
    HelperReturned("_words_to_num_extended") =>
        Let([tokens \in {WordTokens(unit_call.text)} |->
            /\ IsMultiplierSequence(tokens) =>
                /\ unit_result[1].ok
                /\ unit_result[1].v = ImplicitOneAccumulator(tokens, 0, 0) * Scale
            /\ unit_call.text = "one thousand two hundred" =>
                unit_result[1] = Some(1200 * Scale)
            /\ unit_call.text = "two thousand three thousand" =>
                unit_result[1] = Some(5000 * Scale)
            /\ unit_call.text = "one million two thousand" =>
                unit_result[1] = Some(1002000 * Scale)])

\* a text with a flush at thousand followed by a hundreds group has returned
C18_Witness ==
    /\ HelperReturned("_words_to_num_extended")
    /\ unit_call.text = "one thousand five hundred"
    /\ unit_result[1] = Some(1500 * Scale)


\* A numeric literal: digits, optionally followed by a point and digits.
IsNumericLiteral(s) ==
    /\ s # "" /\ IsDigit(Head(s))
    /\ \A i \in 1..Len(s) : IsDigit(Ch(s, i)) \/ Ch(s, i) = "."
    /\ Cardinality({i \in 1..Len(s) : Ch(s, i) = "."}) <= 1

\* s without the commas that stand between two digits
RECURSIVE WithoutSeparators(_, _)
WithoutSeparators(s, i) ==
    IF i > Len(s) THEN ""
    ELSE IF /\ Ch(s, i) = "," /\ 1 < i /\ i < Len(s)
            /\ IsDigit(Ch(s, i - 1)) /\ IsDigit(Ch(s, i + 1))
    THEN WithoutSeparators(s, i + 1)
    ELSE Ch(s, i) \o WithoutSeparators(s, i + 1)

\* s without its blanks at the end
RECURSIVE RStripBlanks(_)
RStripBlanks(s) ==
    IF s # "" /\ Ch(s, Len(s)) = " " THEN RStripBlanks(SubSeq(s, 1, Len(s) - 1)) ELSE s

\* the number before "unit" or "units", or "" when val is not of that form
NumberBeforeUnits(val) ==
    Let([body \in {IF EndsWith(val, " units") THEN SubSeq(val, 1, Len(val) - 5)
                   ELSE IF EndsWith(val, " unit") THEN SubSeq(val, 1, Len(val) - 4)
                   ELSE ""} |->
        IF IsNumericLiteral(RStripBlanks(body)) THEN RStripBlanks(body) ELSE ""])

SuffixFactor(ch) ==
    IF ch \in {"k", "K"} THEN 1000 ELSE IF ch \in {"m", "M"} THEN 1000000 ELSE 1000000000

\* the cell the four rules of _normalize_units, taken in order, give for c
UnitRules(c) ==
    IF ~IsStr(c) \/ c.s = "" THEN c
    ELSE
    Let([front \in {SubSeq(c.s, 1, Len(c.s) - 1)} |->
    Let([last \in {Ch(c.s, Len(c.s))} |->
        IF last \in {"k", "K", "m", "M", "b", "B"} /\ IsNumericLiteral(front)
        THEN FltC(PyFloat(front).v * SuffixFactor(last))
        ELSE IF Head(c.s) \in {"$", "€", "£"} /\ IsNumericLiteral(Tail(c.s))
        THEN FltC(PyFloat(Tail(c.s)).v)
        ELSE IF last \in {"$", "€", "£"} /\ IsNumericLiteral(front)
        THEN FltC(PyFloat(front).v)
        ELSE IF Contains(c.s, ",") /\ last # "," /\ PyFloat(WithoutSeparators(c.s, 1)).ok
        THEN FltC(PyFloat(WithoutSeparators(c.s, 1)).v)
        ELSE IF NumberBeforeUnits(c.s) # ""
        THEN FltC(PyFloat(NumberBeforeUnits(c.s)).v)
        ELSE c])])

\* C19: _normalize_units turns each string cell into the number its first
\* matching rule gives (suffix k/m/b, currency symbol, thousands separators,
\* "unit(s)"), leaves every other cell unchanged, and returns None exactly
\* when no cell changed; the values of test_unit_normalization are met.
C19_UnitRules ==
    HelperReturned("_normalize_units") =>
        Let([cells \in {unit_call.series.cells} |->
        Let([expected \in {[i \in DOMAIN cells |-> UnitRules(cells[i])]} |->
            /\ unit_result[1].ok <=> expected # cells
            /\ unit_result[1].ok => unit_result[1].cells = expected
            /\ \A i \in DOMAIN cells :
                  /\ cells[i] = StrC("10k") => expected[i] = FltC(10000 * Scale)
                  /\ cells[i] = StrC("$50.99") => expected[i] = FltC(5099)
                  /\ cells[i] = StrC("100,000") => expected[i] = FltC(100000 * Scale)
                  /\ cells[i] = StrC("5M") => expected[i] = FltC(5000000 * Scale)
                  /\ cells[i] = StrC("200 units") => expected[i] = FltC(200 * Scale)])])


\* The name rules in their order: the keywords of each and the types it gives.
NameRules ==
    <<[terms |-> {"id", "identifier", "code"}, types |-> {"identifier"}],
      [terms |-> {"name", "title", "product"}, types |-> {"string", "product_name"}],
      [terms |-> {"date", "time", "created", "updated"}, types |-> {"date"}],
      [terms |-> {"price", "cost", "amount", "fee"}, types |-> {"currency"}],
      [terms |-> {"location", "address", "city", "store"}, types |-> {"location"}],
      [terms |-> {"is_", "has_", "active", "enabled", "flag"}, types |-> {"boolean"}]>>

NameRuleMatches(k, column_name) ==
    \E t \in NameRules[k].terms : Contains(str_lower(column_name), t)

\* C20: both type inference functions return the type of the first name
\* rule, in the order identifier, name/title/product, date, currency,
\* location, boolean, whose keyword occurs in the column name, whatever the
\* column holds.
C20_NameRulesFirst ==
    (HelperReturned("_preliminary_type_detection") \/ HelperReturned("_infer_column_type"))
        => \A k \in DOMAIN NameRules :
              (/\ NameRuleMatches(k, unit_call.column)
               /\ \A j \in 1..k - 1 : ~NameRuleMatches(j, unit_call.column))
                  => unit_result[1] \in NameRules[k].types


SemanticTypes ==
    {"identifier", "string", "product_name", "location", "currency", "date", "boolean",
     "integer", "floating", "categorical"}

\* C21: convert.detect_types gives every column of the table exactly one type
\* and the likely type _preliminary_type_detection computes for a column of
\* the cleaning pipeline is one type as well; each is a member of the ten
\* semantic types.
C21_OneKnownType ==
    /\ HelperReturned("detect_types") =>
          /\ DOMAIN unit_result[1] = {unit_call.df[c].name : c \in DOMAIN unit_call.df}
          /\ \A name \in DOMAIN unit_result[1] : unit_result[1][name] \in SemanticTypes
    /\ HelperReturned("_preliminary_type_detection") => unit_result[1] \in SemanticTypes


\* the calls of the three type-specific normalizers, in the order of the calls
IsTypeNormalizer(n) == n \in {"boolean", "date", "numeric"}
TypeCalls(r) == SelectSeq(r.called, IsTypeNormalizer)

IsPrefix(s, t) == Len(s) <= Len(t) /\ SubSeq(t, 1, Len(s)) = s

\* a column Phase 2 met as text and did not preserve
TextColumn(c) ==
    /\ ~IsFrozen(likely[hist.deduped[c].name])
    /\ infer_dtype(hist.deduped[c]) \in {"string", "mixed"}

\* C22: on a text column that is not preserved, the type-specific normalizers
\* are called in the order boolean, date, numeric, the calls stop at the first
\* one whose result is accepted, and the column keeps its text only when all
\* three were called and none was accepted.
C22_FixedOrder ==
    \A c \in DOMAIN hist.cleaned :
        LET r == hist.cleaned[c]
        IN TextColumn(c) =>
               /\ IsPrefix(TypeCalls(r), <<"boolean", "date", "numeric">>)
               /\ r.promoted # "" => r.promoted = TypeCalls(r)[Len(TypeCalls(r))]
               /\ r.promoted = "" => TypeCalls(r) = <<"boolean", "date", "numeric">>


\* the steps of one call that work on a column: an iteration of Phase 1, 2, 2.5 or 3
DetectStep == likely' # likely
CleanStep == hist'.cleaned # hist.cleaned
SemanticStep == hist'.normalized # hist.normalized \/ hist'.semantics # hist.semantics
ImputeStep == hist'.imputations # hist.imputations

\* the duplicates are gone: the table holds the first occurrences of the rows of the input
DedupComplete ==
    /\ hist.deduped = drop_duplicates(input)
    /\ NumRows(df) = NumRows(hist.deduped)
    /\ Cardinality(DistinctRows(hist.deduped)) = NumRows(hist.deduped)
    /\ info.duplicates = NumRows(input) - NumRows(df)

\* Phase 2 has handled the column at position c and no semantic validation of it is due
NormalizationFinished(c) ==
    /\ c <= Len(hist.cleaned)
    /\ hist.cleaned[c].column.name = df[c].name
    /\ ~NeedsSemantics(df[c], validated)

\* C23: within one call, every step on a column is taken on the table without
\* its duplicate rows, a column is imputed only when Phase 2 has handled it and
\* no semantic validation of it is due, and no column is normalized or
\* validated once an imputation has taken place.
C23_PhaseOrder ==
    [][run' = run =>
          /\ (DetectStep \/ CleanStep \/ SemanticStep \/ ImputeStep) => DedupComplete
          /\ ImputeStep => NormalizationFinished(col)
          /\ (CleanStep \/ SemanticStep) => hist.imputations = <<>>]_vars

\* a call removed a duplicate row, turned a text column into numbers, validated
\* and imputed it
C23_Witness ==
    /\ Returned
    /\ info.duplicates > 0
    /\ \E c \in DOMAIN hist.cleaned :
           /\ hist.cleaned[c].promoted = "numeric"
           /\ hist.cleaned[c].semantics # <<>>
           /\ hist.imputations[c].imputed = "median"


\* what lines 39-166 do to one column of the table without duplicates when the
\* column is taken on its own: its likely type, Phase 2, Phase 2.5 and Phase 3
ColumnAlone(column, now) ==
    Let([r \in {CleanColumn(column, preliminary_type_detection(column, column.name), now)} |->
    Let([cleaned \in {IF r.assigned THEN r.column ELSE column} |->
    Let([checked \in {IF NeedsSemantics(cleaned, IF r.validated THEN {column.name} ELSE {})
                      THEN validate_column_semantics(cleaned, column.name).series
                      ELSE cleaned} |->
    Let([imp \in {ImputeColumn(checked)} |->
        [column |-> IF imp.imputed # "" THEN imp.column ELSE checked,
         imputed |-> imp.imputed,
         invalid |-> r.invalid,
         transformations |-> r.log \o imp.log]])])])])

\* the entry of a column in a dictionary of the report, with a default
Entry(d, key, default) == IF key \in DOMAIN d THEN d[key] ELSE default

\* C24: when a call returns, the cells of every column and its entries in
\* imputed, invalid and transformations are those the column gets on its own
\* from the rows that survived the removal of duplicates (on the same day):
\* the values of the other columns of the table have no part in them.
C24_ColumnsIndependent ==
    Returned =>
        \A c \in DOMAIN df :
            LET alone == ColumnAlone(hist.deduped[c], today)
                name == df[c].name
            IN /\ df[c] = alone.column
               /\ Entry(info.imputed, name, "") = alone.imputed
               /\ Entry(info.invalid, name, 0) = alone.invalid
               /\ Entry(info.transformations, name, <<>>) = alone.transformations

\* a call on two columns returned: the first kept a missing cell where the
\* second was filled, and the second was imputed where the first was not
C24_Witness ==
    /\ Returned
    /\ Len(df) = 2
    /\ NumRows(df) = 2
    /\ \E i \in 1..2 : IsNa(df[1].cells[i]) /\ IsNa(hist.deduped[2].cells[3 - i])
    /\ df[2].name \in DOMAIN info.imputed
    /\ df[1].name \notin DOMAIN info.imputed


\* C25: within one call, every step leaves each column's list of
\* transformations and the list of warnings as they were or longer at the end:
\* the list before the step is a prefix of the list after it.
C25_AppendOnly ==
    [][run' = run =>
          /\ IsPrefix(info.warnings, info'.warnings)
          /\ DOMAIN info.transformations \subseteq DOMAIN info'.transformations
          /\ \A name \in DOMAIN info.transformations :
                 IsPrefix(info.transformations[name], info'.transformations[name])]_vars

\* a call returned with a warning and, for one column, entries of Phase 2
\* followed by an entry of Phase 3
C25_Witness ==
    /\ Returned
    /\ info.warnings # <<>>
    /\ \E c \in DOMAIN hist.cleaned :
           /\ hist.cleaned[c].log # <<>>
           /\ hist.imputations[c].log # <<>>
           /\ info.transformations[df[c].name]
                  = hist.cleaned[c].log \o hist.imputations[c].log


\* The number a pair of base number words dictates as a two-digit group: a
\* tens word and a unit ("thirty nine" is 39), or two digits ("one two" is 12).
IsDigitWord(w) == IsNumberWord(w) /\ NUMBER_WORDS[w] < 10
IsTensWord(w) == IsNumberWord(w) /\ NUMBER_WORDS[w] >= 20
IsTwoDigitGroup(a, b) ==
    \/ IsDigitWord(a) /\ IsDigitWord(b)
    \/ IsTensWord(a) /\ IsDigitWord(b) /\ NUMBER_WORDS[b] > 0
TwoDigitGroup(a, b) ==
    IF IsTensWord(a) THEN NUMBER_WORDS[a] + NUMBER_WORDS[b]
    ELSE 10 * NUMBER_WORDS[a] + NUMBER_WORDS[b]

\* C26: for a text of four base number words that dictate two two-digit
\* groups AB and CD, _words_to_num_extended returns the decimal AB.CD, whether
\* the text is a listed phrase or not.
C26_TwoDigitGroups ==
    HelperReturned("_words_to_num_extended") =>
        Let([tokens \in {WordTokens(unit_call.text)} |->
            (/\ Len(tokens) = 4
             /\ IsTwoDigitGroup(tokens[1], tokens[2])
             /\ IsTwoDigitGroup(tokens[3], tokens[4]))
                => unit_result[1] = Some(TwoDigitGroup(tokens[1], tokens[2]) * Scale
                                         + TwoDigitGroup(tokens[3], tokens[4]))])


\* the negative cells of a series and the warning that counts them
NegativeCells(series) ==
    {i \in DOMAIN series.cells :
        series.cells[i].k \in {"int", "float"} /\ series.cells[i].v < 0}
NegativeWarning(series, column) ==
    "Column '" \o column \o "' contains " \o ToString(Cardinality(NegativeCells(series)))
    \o " negative value(s)"
NamedNonNegative(column) ==
    /\ \E k \in {"price", "stock", "quantity", "rating", "count", "age"} :
           Contains(str_lower(column), k)
    /\ ~\E k \in {"sale", "revenue", "profit"} : Contains(str_lower(column), k)
NegativeWarningsOf(anomalies) == {i \in DOMAIN anomalies : Contains(anomalies[i], "negative")}

\* C27, as stated: _validate_column_semantics returns the warning with the
\* count of negative cells exactly when the name holds a non-negative keyword
\* and none of sale, revenue and profit and the series holds a negative value,
\* whatever the other rules report.
C27_AsStated ==
    HelperReturned("_validate_column_semantics") =>
        LET anomalies == unit_result[1].anomalies
            due == NamedNonNegative(unit_call.column) /\ NegativeCells(unit_call.series) # {}
        IN /\ due <=> NegativeWarningsOf(anomalies) # {}
           /\ \A i \in NegativeWarningsOf(anomalies) :
                  anomalies[i] = NegativeWarning(unit_call.series, unit_call.column)

\* C27: for a series of numeric dtype, _validate_column_semantics returns
\* exactly one warning with the count of negative cells when the name holds a
\* non-negative keyword and none of sale, revenue and profit and the series
\* holds a negative value, and no such warning otherwise, whatever the rating
\* and infinite-value rules report; for a series of another dtype it returns
\* no warning.
C27_NegativeRule ==
    HelperReturned("_validate_column_semantics") =>
        LET anomalies == unit_result[1].anomalies
            due == /\ unit_call.series.dtype \in {"int64", "float64", "bool"}
                   /\ NamedNonNegative(unit_call.column)
                   /\ NegativeCells(unit_call.series) # {}
        IN /\ due <=> NegativeWarningsOf(anomalies) # {}
           /\ Cardinality(NegativeWarningsOf(anomalies)) <= 1
           /\ \A i \in NegativeWarningsOf(anomalies) :
                  anomalies[i] = NegativeWarning(unit_call.series, unit_call.column)
           /\ unit_call.series.dtype = "object" => anomalies = <<>>

\* a call on a rating column returned the three warnings: a negative
\* infinite cell and a value above 10
C27_Witness ==
    /\ HelperReturned("_validate_column_semantics")
    /\ unit_call.column = "rating"
    /\ Len(unit_result[1].anomalies) = 3
    /\ unit_result[1].anomalies[1] = "Column 'rating' contains 1 negative value(s)"
    /\ \E i \in DOMAIN unit_call.series.cells : unit_call.series.cells[i] = FltC(-PosInf)


HasPrefix(s, p) == Len(p) <= Len(s) /\ SubSeq(s, 1, Len(p)) = p

\* the entries of a log that record a change of the text original
EntriesOf(log, original) == {k \in DOMAIN log : HasPrefix(log[k], original \o " -> ")}

\* the text cells of column c that Phase 2 changed, and those holding a given text
ChangedCells(c) ==
    {i \in DOMAIN hist.deduped[c].cells :
        /\ IsStr(hist.deduped[c].cells[i])
        /\ hist.cleaned[c].column.cells[i] # hist.deduped[c].cells[i]}
CellsHolding(c, original) ==
    {i \in ChangedCells(c) : hist.deduped[c].cells[i].s = original}

\* C28: the entries Phase 2 appends for a column record the cells it changed,
\* one entry for each: every entry starts with the text of a changed cell,
\* there are no more entries for a text than changed cells holding it, and a
\* column that no normalizer replaced has no entry.
C28_LogMatchesChanges ==
    \A c \in DOMAIN hist.cleaned :
        LET log == hist.cleaned[c].log
        IN /\ \A k \in DOMAIN log :
                  \E i \in ChangedCells(c) :
                      HasPrefix(log[k], hist.deduped[c].cells[i].s \o " -> ")
           /\ \A i \in ChangedCells(c) :
                  Cardinality(EntriesOf(log, hist.deduped[c].cells[i].s))
                      <= Cardinality(CellsHolding(c, hist.deduped[c].cells[i].s))
           /\ ~hist.cleaned[c].assigned => log = <<>>


\* C29: a column whose likely type is identifier or product_name is returned
\* as the removal of duplicates left it, missing cells included, has no entry
\* in imputed, invalid or transformations, and no warning names it but the
\* "preserved as is" one.
C29_FrozenUntouched ==
    Returned =>
        \A c \in DOMAIN df :
            LET name == df[c].name
            IN IsFrozen(likely[name]) =>
                   /\ df[c] = hist.deduped[c]
                   /\ name \notin DOMAIN info.imputed
                   /\ name \notin DOMAIN info.invalid
                   /\ name \notin DOMAIN info.transformations
                   /\ \A k \in DOMAIN info.warnings :
                          Contains(info.warnings[k], "'" \o name \o "'")
                              => info.warnings[k] = PreservedWarning(name, likely[name])


\* the output file of the command line exists
OutputExists == unit_call.output \in DOMAIN files

\* the call of clean_data the command line made has returned
CleaningDone == pc = "done" /\ Len(hist.imputations) = Len(df)

\* C30: a run of the command line that finds the output file and has no
\* --force prints one error line and exits with code 1 in its first step,
\* having read nothing and with every file as it was; the output file is
\* written only when it did not exist or --force was given, after the input
\* was read and, with --clean, cleaned; the report is written only when one
\* was asked for and after the output file holds the table.
C30_NoOverwrite ==
    [][unit_call.fn = "main" =>
          /\ (pc = "main" /\ OutputExists /\ ~unit_call.force) =>
                 /\ pc' = "returned"
                 /\ unit_result' = <<1>>
                 /\ files' = files
                 /\ input' = <<>> /\ df' = <<>>
                 /\ stdout' = <<"Error: " \o unit_call.output
                                \o " exists. Use --force to overwrite.">>
          /\ Get(files', unit_call.output, <<>>) # Get(files, unit_call.output, <<>>) =>
                 /\ ~OutputExists \/ unit_call.force
                 /\ input = files[unit_call.input]
                 /\ IF unit_call.clean THEN CleaningDone ELSE df = input
                 /\ files'[unit_call.output] = df
          /\ unit_call.report \in DOMAIN files' =>
                 /\ unit_call.report # ""
                 /\ OutputExists /\ files[unit_call.output] = df
                 /\ pc' = "returned" /\ unit_result' = <<0>>]_vars

\* a run asked for a report, found the output of an earlier run, had no
\* --force and ended with code 1: the old output is still there, no report
C30_Witness ==
    /\ unit_call.fn = "main"
    /\ pc = "returned"
    /\ unit_result = <<1>>
    /\ ~unit_call.force
    /\ unit_call.report = "report.md"
    /\ files[unit_call.output] = OldOutput
    /\ unit_call.report \notin DOMAIN files
    /\ Len(stdout) = 1

=============================================================================
